---- MODULE Spec2Model ----
(***************************************************************************)
(* safereplace: preview-first literal find-and-replace.                    *)
(*                                                                         *)
(* The model covers internal/apply (WriteAtomic and its helpers, one       *)
(* action per system call so that every intermediate point is a state),    *)
(* internal/processor, internal/diff, internal/discovery (Discover, with   *)
(* the path functions, filepath.Match, filepath.Glob and filepath.WalkDir  *)
(* it relies on) and the orchestration in internal/cli (Run).              *)
(*                                                                         *)
(* Strings are sequences of byte values; a file is a record of its         *)
(* content, its mode (a set of mode bits) and whether its data has been    *)
(* flushed; the file system maps the names that exist to their files.      *)
(* A directory and a symbolic link are files with a type bit in their      *)
(* mode; the content of a link is the path it points to.                   *)
(***************************************************************************)
EXTENDS Integers, Sequences, FiniteSets, TLC

VARIABLES
    fs,       \* the file system: existing name -> file
    umask,    \* the process's file-mode creation mask
    wa,       \* the frame of the WriteAtomic call in progress
    trace,    \* history: system calls made by the current WriteAtomic call
    fs0,      \* history: the file system when the current call started
    crashed,  \* the process was killed
    calls,    \* number of direct WriteAtomic calls made so far
    run,      \* the frame of cli.Run
    stdout,   \* what Run printed to stdout
    stderr,   \* what Run printed to stderr
    hist,     \* history of Run: what was processed, what went wrong
    unit      \* the frame of a direct call of Discover, SubstituteLiteralFile or Diff

vars == <<fs, umask, wa, trace, fs0, crashed, calls, run, stdout, stderr, hist, unit>>

-----------------------------------------------------------------------------
(* Bounds *)

\* Direct WriteAtomic calls made one after the other on the same tree.
MaxCalls == 2

\* Files in the tree that Run works on.
MaxFiles == 2

\* Directories that a call of Discover can neither read nor search.
MaxDenied == 1

\* Additions to the root and its one file in the trees given to Discover.
MaxExtras == 2

\* the longest content of a file and the longest text handed to Diff
MaxLen == 3

-----------------------------------------------------------------------------
(* Bytes and strings *)

NUL == 0
NL == 10

Min(S) == CHOOSE x \in S : \A y \in S : x <= y

HasPrefixAt(s, pat, i) ==
    /\ i + Len(pat) - 1 <= Len(s)
    /\ SubSeq(s, i, i + Len(pat) - 1) = pat

HasSuffix(s, suf) ==
    /\ Len(suf) <= Len(s)
    /\ SubSeq(s, Len(s) - Len(suf) + 1, Len(s)) = suf

TrimSuffix(s, suf) ==
    IF HasSuffix(s, suf) THEN SubSeq(s, 1, Len(s) - Len(suf)) ELSE s

IndexByte(s, b) ==
    IF \E i \in 1..Len(s) : s[i] = b
    THEN Min({i \in 1..Len(s) : s[i] = b}) - 1
    ELSE -1

\* bytewise lexicographic order, as sort.Strings compares
RECURSIVE LexLess(_, _)
LexLess(a, b) ==
    IF a = <<>> THEN b # <<>>
    ELSE IF b = <<>> THEN FALSE
    ELSE IF Head(a) # Head(b) THEN Head(a) < Head(b)
    ELSE LexLess(Tail(a), Tail(b))

-----------------------------------------------------------------------------
(* File modes *)

PermBits == {"ur", "uw", "ux", "gr", "gw", "gx", "or", "ow", "ox"}
ModeBits == PermBits \cup {"setuid"}

\* FileMode.Perm(): the permission bits of a mode
Perm(m) == m \cap PermBits

Mode0600 == {"ur", "uw"}
Mode0644 == {"ur", "uw", "gr", "or"}
Mode0664 == {"ur", "uw", "gr", "gw", "or"}
Mode4755 == {"setuid", "ur", "uw", "ux", "gr", "gx", "or", "ox"}
Mode0022 == {"gw", "ow"}

\* The mode a file created by open(2) with O_CREATE gets: perm &^ umask.
CreateMode(perm) == perm \ umask

-----------------------------------------------------------------------------
(* File system *)

FileName(p) == [k |-> "file", p |-> p, s |-> "", i |-> 0]
TmpName(p)  == [k |-> "tmp", p |-> p, s |-> "", i |-> 0]
NoName      == [k |-> "none", p |-> <<>>, s |-> "", i |-> 0]

File(c, m, d) == [content |-> c, mode |-> m, synced |-> d]

Exists(f, n) == n \in DOMAIN f

\* os.Remove: unlink the name
Remove(f, n) == [m \in DOMAIN f \ {n} |-> f[m]]

Put(f, n, file) == [m \in DOMAIN f \cup {n} |-> IF m = n THEN file ELSE f[m]]

\* os.OpenFile(name, O_CREATE|O_WRONLY|O_TRUNC, perm): a new file gets
\* perm &^ umask; an existing one is truncated and keeps its mode.
OpenCreateTrunc(f, n, perm) ==
    IF Exists(f, n)
    THEN Put(f, n, File(<<>>, f[n].mode, FALSE))
    ELSE Put(f, n, File(<<>>, CreateMode(perm), FALSE))

\* write(2) of the first k bytes of data at the end of the file
WriteBytes(f, n, data, k) ==
    Put(f, n, File(f[n].content \o SubSeq(data, 1, k), f[n].mode, FALSE))

\* fchmod(2)
Chmod(f, n, m) == Put(f, n, File(f[n].content, m, f[n].synced))

\* fsync(2)
Sync(f, n) == Put(f, n, File(f[n].content, f[n].mode, TRUE))

\* rename(2): new names old's file, atomically; old is gone
Rename(f, old, new) ==
    [m \in (DOMAIN f \ {old}) \cup {new} |-> IF m = new THEN f[old] ELSE f[m]]

-----------------------------------------------------------------------------
(* Paths: path/filepath on a system whose separator is "/" *)

Slash == 47
Dot == 46

\* strings.Split(s, sep) for a separator of one byte
RECURSIVE SplitOn(_, _)
SplitOn(s, b) ==
    LET i == IndexByte(s, b)
    IN  IF i < 0 THEN <<s>>
        ELSE <<SubSeq(s, 1, i)>> \o SplitOn(SubSeq(s, i + 2, Len(s)), b)

\* strings.Join(elems, "/")
RECURSIVE JoinOn(_, _)
JoinOn(elems, b) ==
    IF elems = <<>> THEN <<>>
    ELSE IF Len(elems) = 1 THEN elems[1]
    ELSE elems[1] \o <<b>> \o JoinOn(Tail(elems), b)

\* the index of the last b in s, 0 if there is none
LastIndexByte(s, b) ==
    IF \E i \in 1..Len(s) : s[i] = b
    THEN CHOOSE i \in 1..Len(s) : s[i] = b /\ \A j \in (i + 1)..Len(s) : s[j] # b
    ELSE 0

\* filepath.IsAbs
IsAbs(p) == p # <<>> /\ p[1] = Slash

\* The elements that filepath.Clean keeps: empty ones and "." are dropped,
\* ".." removes the element before it; at the root it is dropped, at the
\* start of a relative path it is kept.
RECURSIVE CleanElems(_, _, _)
CleanElems(elems, out, rooted) ==
    IF elems = <<>> THEN out
    ELSE LET e == Head(elems)
             rest == Tail(elems)
         IN  IF e = <<>> \/ e = <<Dot>> THEN CleanElems(rest, out, rooted)
             ELSE IF e = <<Dot, Dot>>
             THEN IF out # <<>> /\ out[Len(out)] # <<Dot, Dot>>
                  THEN CleanElems(rest, SubSeq(out, 1, Len(out) - 1), rooted)
                  ELSE IF rooted THEN CleanElems(rest, out, rooted)
                  ELSE CleanElems(rest, Append(out, e), rooted)
             ELSE CleanElems(rest, Append(out, e), rooted)

\* filepath.Clean
Clean(p) ==
    LET body == JoinOn(CleanElems(SplitOn(p, Slash), <<>>, IsAbs(p)), Slash)
    IN  IF IsAbs(p) THEN <<Slash>> \o body
        ELSE IF body = <<>> THEN <<Dot>>
        ELSE body

\* filepath.Join(a, b): empty elements are ignored, the result is cleaned
Join(a, b) ==
    IF a = <<>> /\ b = <<>> THEN <<>>
    ELSE IF a = <<>> THEN Clean(b)
    ELSE IF b = <<>> THEN Clean(a)
    ELSE Clean(a \o <<Slash>> \o b)

\* filepath.Base of a cleaned path
Base(p) ==
    IF p = <<>> THEN <<Dot>>
    ELSE IF p = <<Slash>> THEN p
    ELSE SubSeq(p, LastIndexByte(p, Slash) + 1, Len(p))

\* filepath.Dir of a cleaned path
Dir(p) ==
    LET i == LastIndexByte(p, Slash)
    IN  IF i = 0 THEN <<Dot>>
        ELSE IF i = 1 THEN <<Slash>>
        ELSE SubSeq(p, 1, i - 1)

\* filepath.Ext: the suffix of the last element that starts at its last dot
Ext(p) ==
    LET i == LastIndexByte(p, Dot)
    IN  IF i > LastIndexByte(p, Slash) THEN SubSeq(p, i, Len(p)) ELSE <<>>

\* strings.TrimPrefix
\* Mutant: the leading dot is kept.
TrimPrefix_None(s, pre) == s

TrimPrefix(s, pre) ==
    IF HasPrefixAt(s, pre, 1) THEN SubSeq(s, Len(pre) + 1, Len(s)) ELSE s

\* strings.ToLower on ASCII
ToLower(s) ==
    IF s = <<>> THEN <<>>
    ELSE [i \in 1..Len(s) |-> IF s[i] \in 65..90 THEN s[i] + 32 ELSE s[i]]

\* strings.ToUpper on ASCII
ToUpper(s) ==
    IF s = <<>> THEN <<>>
    ELSE [i \in 1..Len(s) |-> IF s[i] \in 97..122 THEN s[i] - 32 ELSE s[i]]

\* strings.EqualFold on ASCII
EqualFold(a, b) == ToLower(a) = ToLower(b)

\* the number of leading elements two paths have in common
RECURSIVE CommonElems(_, _)
CommonElems(a, b) ==
    IF a = <<>> \/ b = <<>> \/ Head(a) # Head(b) THEN 0
    ELSE 1 + CommonElems(Tail(a), Tail(b))

\* filepath.Rel(base, targ) for two absolute paths: ".." for every element
\* of base that targ does not share, then what is left of targ
Rel(base, targ) ==
    LET b == CleanElems(SplitOn(base, Slash), <<>>, TRUE)
        t == CleanElems(SplitOn(targ, Slash), <<>>, TRUE)
        n == CommonElems(b, t)
        ups == IF Len(b) = n THEN <<>> ELSE [i \in 1..(Len(b) - n) |-> <<Dot, Dot>>]
    IN  IF b = t THEN <<Dot>>
        ELSE JoinOn(ups \o SubSeq(t, n + 1, Len(t)), Slash)

-----------------------------------------------------------------------------
(* filepath.Match *)

Star == 42
Question == 63
LBracket == 91
Backslash == 92
RBracket == 93
Caret == 94
Hyphen == 45

\* getEsc: one character of a class, possibly escaped; it may not be "-"
\* or "]", and the pattern may not end with it
GetEsc(pat, k) ==
    IF k > Len(pat) \/ pat[k] = Hyphen \/ pat[k] = RBracket
    THEN [ok |-> FALSE, r |-> 0, next |-> 0]
    ELSE LET q == IF pat[k] = Backslash THEN k + 1 ELSE k
         IN  IF q + 1 > Len(pat) THEN [ok |-> FALSE, r |-> 0, next |-> 0]
             ELSE [ok |-> TRUE, r |-> pat[q], next |-> q + 1]

\* the ranges of the class whose items start at k, and where the pattern
\* goes on after its "]"
RECURSIVE ParseClass(_, _, _, _)
ParseClass(pat, k, nrange, ranges) ==
    IF k <= Len(pat) /\ pat[k] = RBracket /\ nrange > 0
    THEN [ok |-> TRUE, next |-> k + 1, ranges |-> ranges]
    ELSE LET lo == GetEsc(pat, k)
         IN  IF ~lo.ok THEN [ok |-> FALSE, next |-> 0, ranges |-> {}]
             ELSE IF pat[lo.next] = Hyphen
             THEN LET hi == GetEsc(pat, lo.next + 1)
                  IN  IF ~hi.ok THEN [ok |-> FALSE, next |-> 0, ranges |-> {}]
                      ELSE ParseClass(pat, hi.next, nrange + 1,
                                      ranges \cup {<<lo.r, hi.r>>})
             ELSE ParseClass(pat, lo.next, nrange + 1, ranges \cup {<<lo.r, lo.r>>})

\* the class that starts with the "[" at i
Class(pat, i) ==
    LET negated == i + 1 <= Len(pat) /\ pat[i + 1] = Caret
        c == ParseClass(pat, IF negated THEN i + 2 ELSE i + 1, 0, {})
    IN  [ok |-> c.ok, next |-> c.next, ranges |-> c.ranges, negated |-> negated]

\* the pattern is well-formed from i on
RECURSIVE PatternOK(_, _)
PatternOK(pat, i) ==
    IF i > Len(pat) THEN TRUE
    ELSE IF pat[i] = Backslash THEN i + 1 <= Len(pat) /\ PatternOK(pat, i + 2)
    ELSE IF pat[i] = LBracket
    THEN LET c == Class(pat, i) IN c.ok /\ PatternOK(pat, c.next)
    ELSE PatternOK(pat, i + 1)

\* a well-formed pattern from i on matches name from j on
RECURSIVE MatchFrom(_, _, _, _)
MatchFrom(pat, i, name, j) ==
    IF i > Len(pat) THEN j > Len(name)
    ELSE IF pat[i] = Star
    THEN \E k \in j..(Len(name) + 1) :
            /\ \A m \in j..(k - 1) : name[m] # Slash
            /\ MatchFrom(pat, i + 1, name, k)
    ELSE IF j > Len(name) THEN FALSE
    ELSE IF pat[i] = Question
    THEN name[j] # Slash /\ MatchFrom(pat, i + 1, name, j + 1)
    ELSE IF pat[i] = LBracket
    THEN LET c == Class(pat, i)
             inside == \E r \in c.ranges : r[1] <= name[j] /\ name[j] <= r[2]
         IN  inside # c.negated /\ MatchFrom(pat, c.next, name, j + 1)
    ELSE IF pat[i] = Backslash
    THEN pat[i + 1] = name[j] /\ MatchFrom(pat, i + 2, name, j + 1)
    ELSE pat[i] = name[j] /\ MatchFrom(pat, i + 1, name, j + 1)

\* filepath.Match(pattern, name): a malformed pattern is ErrBadPattern
\* whatever the name
Match(pattern, name) ==
    IF ~PatternOK(pattern, 1) THEN [matched |-> FALSE, err |-> TRUE]
    ELSE [matched |-> MatchFrom(pattern, 1, name, 1), err |-> FALSE]

-----------------------------------------------------------------------------
(* internal/apply: WriteAtomic *)

BackupProbeLimit == 1000

BakName(p, s, i) == [k |-> "bak", p |-> p, s |-> s, i |-> i]

\* opts.BackupSuffix, ".bak" when empty
BackupSuffix(s) == IF s = "" THEN ".bak" ELSE s

\* Mutant: the backup always goes to <base><suffix>.
uniqueBackupPath_First(f, p, suffix) == BakName(p, suffix, 0)

\* The first candidate that Lstat reports as not existing: <base><suffix>,
\* then <base><suffix>.1 up to <base><suffix>.999; NoName when none is free.
\* Candidate i = 0 stands for the name without a number.
uniqueBackupPath(f, p, suffix) ==
    IF ~Exists(f, BakName(p, suffix, 0)) THEN BakName(p, suffix, 0)
    ELSE LET free == {i \in 1..(BackupProbeLimit - 1) :
                          ~Exists(f, BakName(p, suffix, i))}
         IN  IF free = {} THEN NoName ELSE BakName(p, suffix, Min(free))

WaIdle ==
    [pc |-> "idle", path |-> <<>>, data |-> <<>>, backup |-> FALSE,
     suffix |-> "", mode |-> {}, bak |-> NoName, tmp |-> NoName,
     renamed |-> FALSE, err |-> "nil"]

\* The frame of WriteAtomic(path, data, Options{Backup, BackupSuffix}) on entry
WriteAtomic(path, data, backup, suffix) ==
    [WaIdle EXCEPT !.pc = "stat", !.path = path, !.data = data,
                   !.backup = backup, !.suffix = suffix]

\* mode := info.Mode().Perm()
StatMode(f, w) == Perm(f[FileName(w.path)].mode)

\* copyFile: open src, create dst with the original's permission bits
BackupOpen(f, w) == OpenCreateTrunc(f, w.bak, w.mode)

\* copyFile: io.Copy(w, r); k bytes reach the backup
BackupCopy(f, w, k) == WriteBytes(f, w.bak, f[FileName(w.path)].content, k)

\* copyFile: w.Sync()
BackupSync(f, w) == Sync(f, w.bak)

\* Mutant: the new content is written to the target's own name.
TempPath_InPlace(w) == FileName(w.path)

\* tf.Name(): a fresh name base+".tmp-<random>" in the target's directory
TempPath(w) == TmpName(w.path)

\* os.CreateTemp(dir, base+".tmp-*"): a new file, opened with mode 0600
CreateTemp(f, w) == Put(f, TempPath(w), File(<<>>, CreateMode(Mode0600), FALSE))

\* tf.Write(data); k bytes reach the temporary file
TempWrite(f, w, k) == WriteBytes(f, w.tmp, w.data, k)

\* Mutant: the temporary file keeps the mode it was created with.
TempChmod_Skipped(f, w) == f

\* tf.Chmod(mode)
TempChmod(f, w) == Chmod(f, w.tmp, w.mode)

\* tf.Sync()
TempSync(f, w) == Sync(f, w.tmp)

\* os.Rename(tf.Name(), path)
RenameTemp(f, w) == Rename(f, w.tmp, FileName(w.path))

\* Mutant: the cleanup removes the target instead of the temporary file.
Cleanup_Target(f, w) == IF ~w.renamed THEN Remove(f, FileName(w.path)) ELSE f

\* Mutant: no cleanup.
Cleanup_None(f, w) == f

\* the deferred function: if !renamed { os.Remove(name) }
Cleanup(f, w) == IF ~w.renamed THEN Remove(f, w.tmp) ELSE f

Log(op, ok) == Append(trace, [op |-> op, ok |-> ok])

\* return before the cleanup is deferred
ReturnErr(w, e) == [w EXCEPT !.pc = "done", !.err = e]

\* return after the cleanup is deferred: the deferred function runs first
ReturnDeferred(w, e) == [w EXCEPT !.pc = "defer", !.err = e]

callerVars == <<umask, fs0, crashed, calls, run, stdout, stderr, hist, unit>>

\* 1) stat original (must exist; preserving mode)
WA_Stat ==
    /\ ~crashed
    /\ wa.pc = "stat"
    /\ \E ok \in BOOLEAN :
        /\ ok => Exists(fs, FileName(wa.path))
        /\ trace' = Log("stat", ok)
        /\ wa' = IF ok
                 THEN [wa EXCEPT !.mode = StatMode(fs, wa),
                                 !.pc = IF wa.backup THEN "backup.path"
                                                     ELSE "temp.create"]
                 ELSE ReturnErr(wa, "stat")
    /\ UNCHANGED <<fs, callerVars>>

\* 2) optional backup: pick the backup's name
WA_BackupPath ==
    /\ ~crashed
    /\ wa.pc = "backup.path"
    /\ LET cand == uniqueBackupPath(fs, wa.path, BackupSuffix(wa.suffix))
       IN  /\ trace' = Log("backup.path", cand # NoName)
           /\ wa' = IF cand # NoName
                    THEN [wa EXCEPT !.bak = cand, !.pc = "backup.open"]
                    ELSE ReturnErr(wa, "backup: too many existing backups")
    /\ UNCHANGED <<fs, callerVars>>

WA_BackupOpen ==
    /\ ~crashed
    /\ wa.pc = "backup.open"
    /\ \E ok \in BOOLEAN :
        /\ trace' = Log("backup.open", ok)
        /\ fs' = IF ok THEN BackupOpen(fs, wa) ELSE fs
        /\ wa' = IF ok THEN [wa EXCEPT !.pc = "backup.copy"]
                       ELSE ReturnErr(wa, "backup")
    /\ UNCHANGED callerVars

WA_BackupCopy ==
    /\ ~crashed
    /\ wa.pc = "backup.copy"
    /\ LET n == Len(fs[FileName(wa.path)].content)
       IN  \E ok \in BOOLEAN, k \in 0..n :
            /\ ok => k = n
            /\ ~ok => (k < n \/ n = 0)
            /\ trace' = Log("backup.copy", ok)
            /\ fs' = BackupCopy(fs, wa, k)
            /\ wa' = IF ok THEN [wa EXCEPT !.pc = "backup.sync"]
                           ELSE ReturnErr(wa, "backup")
    /\ UNCHANGED callerVars

WA_BackupSync ==
    /\ ~crashed
    /\ wa.pc = "backup.sync"
    /\ \E ok \in BOOLEAN :
        /\ trace' = Log("backup.sync", ok)
        /\ fs' = IF ok THEN BackupSync(fs, wa) ELSE fs
        /\ wa' = IF ok THEN [wa EXCEPT !.pc = "temp.create"]
                       ELSE ReturnErr(wa, "backup")
    /\ UNCHANGED callerVars

\* 3) write temp in same dir
WA_CreateTemp ==
    /\ ~crashed
    /\ wa.pc = "temp.create"
    /\ \E ok \in BOOLEAN :
        /\ trace' = Log("temp.create", ok)
        /\ fs' = IF ok THEN CreateTemp(fs, wa) ELSE fs
        /\ wa' = IF ok THEN [wa EXCEPT !.tmp = TempPath(wa), !.pc = "temp.write"]
                       ELSE ReturnErr(wa, "temp")
    /\ UNCHANGED callerVars

WA_Write ==
    /\ ~crashed
    /\ wa.pc = "temp.write"
    /\ LET n == Len(wa.data)
       IN  \E ok \in BOOLEAN, k \in 0..n :
            /\ ok => k = n
            /\ ~ok => (k < n \/ n = 0)
            /\ trace' = Log("temp.write", ok)
            /\ fs' = TempWrite(fs, wa, k)
            /\ wa' = IF ok THEN [wa EXCEPT !.pc = "temp.chmod"]
                           ELSE ReturnDeferred(wa, "write temp")
    /\ UNCHANGED callerVars

WA_Chmod ==
    /\ ~crashed
    /\ wa.pc = "temp.chmod"
    /\ \E ok \in BOOLEAN :
        /\ trace' = Log("temp.chmod", ok)
        /\ fs' = IF ok THEN TempChmod(fs, wa) ELSE fs
        /\ wa' = IF ok THEN [wa EXCEPT !.pc = "temp.sync"]
                       ELSE ReturnDeferred(wa, "chmod temp")
    /\ UNCHANGED callerVars

WA_Sync ==
    /\ ~crashed
    /\ wa.pc = "temp.sync"
    /\ \E ok \in BOOLEAN :
        /\ trace' = Log("temp.sync", ok)
        /\ fs' = IF ok THEN TempSync(fs, wa) ELSE fs
        /\ wa' = IF ok THEN [wa EXCEPT !.pc = "temp.close"]
                       ELSE ReturnDeferred(wa, "fsync temp")
    /\ UNCHANGED callerVars

WA_Close ==
    /\ ~crashed
    /\ wa.pc = "temp.close"
    /\ \E ok \in BOOLEAN :
        /\ trace' = Log("temp.close", ok)
        /\ wa' = IF ok THEN [wa EXCEPT !.pc = "rename"]
                       ELSE ReturnDeferred(wa, "close temp")
    /\ UNCHANGED <<fs, callerVars>>

\* 4) atomic replace
WA_Rename ==
    /\ ~crashed
    /\ wa.pc = "rename"
    /\ \E ok \in BOOLEAN :
        /\ trace' = Log("rename", ok)
        /\ fs' = IF ok THEN RenameTemp(fs, wa) ELSE fs
        /\ wa' = IF ok THEN [wa EXCEPT !.renamed = TRUE, !.pc = "dir.sync"]
                       ELSE ReturnDeferred(wa, "rename")
    /\ UNCHANGED callerVars

\* Mutant: a directory that cannot be flushed makes WriteAtomic fail.
WA_SyncDir_Fatal ==
    /\ ~crashed
    /\ wa.pc = "dir.sync"
    /\ \E ok \in BOOLEAN :
        /\ trace' = Log("dir.sync", ok)
        /\ wa' = ReturnDeferred(wa, IF ok THEN "nil" ELSE "fsync dir")
    /\ UNCHANGED <<fs, callerVars>>

\* 5) fsync parent dir, the result is dropped
WA_SyncDir ==
    /\ ~crashed
    /\ wa.pc = "dir.sync"
    /\ \E ok \in BOOLEAN :
        /\ trace' = Log("dir.sync", ok)
        /\ wa' = ReturnDeferred(wa, "nil")
    /\ UNCHANGED <<fs, callerVars>>

\* the deferred cleanup, run as WriteAtomic returns
WA_Defer ==
    /\ ~crashed
    /\ wa.pc = "defer"
    /\ trace' = IF ~wa.renamed THEN Log("remove", TRUE) ELSE trace
    /\ fs' = Cleanup(fs, wa)
    /\ wa' = [wa EXCEPT !.pc = "done"]
    /\ UNCHANGED callerVars

WriteAtomicStep ==
    \/ WA_Stat
    \/ WA_BackupPath
    \/ WA_BackupOpen
    \/ WA_BackupCopy
    \/ WA_BackupSync
    \/ WA_CreateTemp
    \/ WA_Write
    \/ WA_Chmod
    \/ WA_Sync
    \/ WA_Close
    \/ WA_Rename
    \/ WA_SyncDir
    \/ WA_Defer

\* The process is killed inside WriteAtomic: nothing runs any more, not even
\* the deferred cleanup.
Crash ==
    /\ ~crashed
    /\ wa.pc \notin {"idle", "done"}
    /\ crashed' = TRUE
    /\ UNCHANGED <<fs, umask, wa, trace, fs0, calls, run, stdout, stderr, hist, unit>>

-----------------------------------------------------------------------------
(* internal/processor: SubstituteLiteralFile *)

\* strings.Count(s, pat) for a non-empty pat: non-overlapping occurrences,
\* found from the left
RECURSIVE CountFrom(_, _, _)
CountFrom(s, pat, i) ==
    IF i + Len(pat) - 1 > Len(s) THEN 0
    ELSE IF HasPrefixAt(s, pat, i) THEN 1 + CountFrom(s, pat, i + Len(pat))
    ELSE CountFrom(s, pat, i + 1)

\* Mutant: occurrences that overlap are all counted.
Count_Overlapping(s, pat) ==
    IF pat = <<>> THEN Len(s) + 1
    ELSE Cardinality({i \in 1..Len(s) : HasPrefixAt(s, pat, i)})

\* strings.Count: an empty pat counts the positions between bytes
Count(s, pat) == IF pat = <<>> THEN Len(s) + 1 ELSE CountFrom(s, pat, 1)

RECURSIVE ReplaceFrom(_, _, _, _)
ReplaceFrom(s, pat, repl, i) ==
    IF i > Len(s) THEN <<>>
    ELSE IF HasPrefixAt(s, pat, i) THEN repl \o ReplaceFrom(s, pat, repl, i + Len(pat))
    ELSE <<s[i]>> \o ReplaceFrom(s, pat, repl, i + 1)

RECURSIVE ReplaceEmpty(_, _)
ReplaceEmpty(s, repl) ==
    IF s = <<>> THEN repl ELSE repl \o <<Head(s)>> \o ReplaceEmpty(Tail(s), repl)

\* strings.ReplaceAll: an empty pat puts repl before every byte and at the end
ReplaceAll(s, pat, repl) ==
    IF pat = <<>> THEN ReplaceEmpty(s, repl) ELSE ReplaceFrom(s, pat, repl, 1)

\* os.ReadFile: fails on a name that does not exist, and whenever the
\* system refuses (ok = FALSE)
ReadFile(f, p, ok) ==
    IF ok /\ Exists(f, FileName(p))
    THEN [err |-> FALSE, data |-> f[FileName(p)].content]
    ELSE [err |-> TRUE, data |-> <<>>]

Result(e, before, after, n, changed) ==
    [err |-> e, Before |-> before, After |-> after, Matches |-> n,
     Replacements |-> n, Changed |-> changed]

\* Mutant: the content is not looked at before the replacement.
SubstituteLiteralFile_NoBinaryCheck(rd, pattern, repl) ==
    IF rd.err THEN Result("read", <<>>, <<>>, 0, FALSE)
    ELSE IF pattern = <<>> THEN Result("nil", rd.data, rd.data, 0, FALSE)
    ELSE IF Count(rd.data, pattern) = 0 THEN Result("nil", rd.data, rd.data, 0, FALSE)
    ELSE LET after == ReplaceAll(rd.data, pattern, repl)
         IN  Result("nil", rd.data, after, Count(rd.data, pattern), rd.data # after)

\* Mutant: a result with matches is reported as changed.
SubstituteLiteralFile_ChangedOnMatch(rd, pattern, repl) ==
    IF rd.err THEN Result("read", <<>>, <<>>, 0, FALSE)
    ELSE IF IndexByte(rd.data, NUL) >= 0 THEN Result("binary", <<>>, <<>>, 0, FALSE)
    ELSE IF pattern = <<>> THEN Result("nil", rd.data, rd.data, 0, FALSE)
    ELSE IF Count(rd.data, pattern) = 0 THEN Result("nil", rd.data, rd.data, 0, FALSE)
    ELSE Result("nil", rd.data, ReplaceAll(rd.data, pattern, repl),
                Count(rd.data, pattern), TRUE)

\* SubstituteLiteralFile, given what os.ReadFile returned
SubstituteLiteralFile(rd, pattern, repl) ==
    IF rd.err THEN Result("read", <<>>, <<>>, 0, FALSE)
    ELSE IF IndexByte(rd.data, NUL) >= 0 THEN Result("binary", <<>>, <<>>, 0, FALSE)
    ELSE IF pattern = <<>> THEN Result("nil", rd.data, rd.data, 0, FALSE)
    ELSE IF Count(rd.data, pattern) = 0 THEN Result("nil", rd.data, rd.data, 0, FALSE)
    ELSE LET after == ReplaceAll(rd.data, pattern, repl)
         IN  Result("nil", rd.data, after, Count(rd.data, pattern), rd.data # after)

-----------------------------------------------------------------------------
(* internal/diff: Diff *)

\* Mutant: only equal texts are equal.
equalIgnoringSingleTrailingFinalNL_Exact(a, b) == a = b

equalIgnoringSingleTrailingFinalNL(a, b) ==
    IF a = b THEN TRUE
    ELSE IF HasSuffix(a, <<NL>>) /\ ~HasSuffix(b, <<NL>>) THEN TrimSuffix(a, <<NL>>) = b
    ELSE IF HasSuffix(b, <<NL>>) /\ ~HasSuffix(a, <<NL>>) THEN TrimSuffix(b, <<NL>>) = a
    ELSE FALSE

\* strings.Split(s, "\n")
RECURSIVE SplitLines(_)
SplitLines(s) ==
    LET i == IndexByte(s, NL)
    IN  IF i < 0 THEN <<s>>
        ELSE <<SubSeq(s, 1, i)>> \o SplitLines(SubSeq(s, i + 2, Len(s)))

\* "--- before" and "+++ after"
HeaderBefore == <<45, 45, 45, 32, 98, 101, 102, 111, 114, 101>>
HeaderAfter == <<43, 43, 43, 32, 97, 102, 116, 101, 114>>

\* One line of the preview: its text without the final newline, and the
\* ANSI colour it is wrapped in.
Line(text, colour) == [text |-> text, colour |-> colour]

\* colorize(prefix, line, added)
colorize(opts, prefix, line, added) ==
    IF ~opts.Color THEN Line(prefix \o line, "none")
    ELSE IF added THEN Line(prefix \o line, "green")
    ELSE Line(prefix \o line, "red")

\* Mutant: removed lines are not rendered.
RECURSIVE DiffLines_AddedOnly(_, _, _, _)
DiffLines_AddedOnly(bl, al, opts, i) ==
    IF i > Len(bl) /\ i > Len(al) THEN <<>>
    ELSE LET br == IF i <= Len(bl) THEN bl[i] ELSE <<>>
             ar == IF i <= Len(al) THEN al[i] ELSE <<>>
             rest == DiffLines_AddedOnly(bl, al, opts, i + 1)
         IN  IF br = ar THEN rest
             ELSE (IF ar # <<>> THEN <<colorize(opts, <<43>>, ar, TRUE)>> ELSE <<>>)
                  \o rest

RECURSIVE DiffLines(_, _, _, _)
DiffLines(bl, al, opts, i) ==
    IF i > Len(bl) /\ i > Len(al) THEN <<>>
    ELSE LET br == IF i <= Len(bl) THEN bl[i] ELSE <<>>
             ar == IF i <= Len(al) THEN al[i] ELSE <<>>
             rest == DiffLines(bl, al, opts, i + 1)
         IN  IF br = ar THEN rest
             ELSE (IF br # <<>> THEN <<colorize(opts, <<45>>, br, FALSE)>> ELSE <<>>)
                  \o (IF ar # <<>> THEN <<colorize(opts, <<43>>, ar, TRUE)>> ELSE <<>>)
                  \o rest

DiffOptions(color, context, strict) ==
    [Color |-> color, Context |-> context, StrictEOL |-> strict]

\* Mutant: the header lines are written before the texts are compared.
Diff_HeadersAlways(before, after, opts) ==
    IF (~opts.StrictEOL /\ equalIgnoringSingleTrailingFinalNL(before, after))
        \/ before = after
    THEN [preview |-> <<Line(HeaderBefore, "none"), Line(HeaderAfter, "none")>>,
          changed |-> FALSE, err |-> "nil"]
    ELSE [preview |-> <<Line(HeaderBefore, "none"), Line(HeaderAfter, "none")>>
                       \o DiffLines(SplitLines(before), SplitLines(after), opts, 1),
          changed |-> TRUE, err |-> "nil"]

\* Diff(before, after, opts): the preview, line by line, and whether there
\* were changes; the error is always nil
Diff(before, after, opts) ==
    IF ~opts.StrictEOL /\ equalIgnoringSingleTrailingFinalNL(before, after)
    THEN [preview |-> <<>>, changed |-> FALSE, err |-> "nil"]
    ELSE IF before = after
    THEN [preview |-> <<>>, changed |-> FALSE, err |-> "nil"]
    ELSE [preview |-> <<Line(HeaderBefore, "none"), Line(HeaderAfter, "none")>>
                       \o DiffLines(SplitLines(before), SplitLines(after), opts, 1),
          changed |-> TRUE, err |-> "nil"]

-----------------------------------------------------------------------------
(* internal/discovery: Discover *)

\* The type bits of a mode: a directory, a symbolic link.  The content of a
\* symbolic link is the absolute path it points to.
TypeBits == {"dir", "symlink"}
ModeDir == {"dir", "ur", "uw", "ux", "gr", "gx", "or", "ox"}
ModeSymlink == {"symlink"} \cup PermBits

\* FileMode.IsRegular, FileMode.IsDir
IsRegular(m) == m \cap TypeBits = {}
IsDir(m) == "dir" \in m

\* the paths of the tree's entries
Entries(f) == {n.p : n \in {m \in DOMAIN f : m.k = "file"}}

\* The environment of a call: whether the working directory can be
\* determined (getwd), the directories that can be neither read nor searched
\* (denied), and the order in which a range over a map yields its keys.
Env(getwd, denied, order) == [getwd |-> getwd, denied |-> denied, order |-> order]

\* the working directory, "/r"
Cwd == <<Slash, 114>>

NoPath == <<>>

\* The directory that d names once the symbolic links on the way are
\* followed, NoPath if there is none or if it cannot be reached.
RECURSIVE RealDir(_, _, _)
RealDir(f, env, d) ==
    IF ~IsAbs(d) THEN NoPath
    ELSE IF d = <<Slash>> THEN d
    ELSE LET pd == RealDir(f, env, Dir(d))
         IN  IF pd = NoPath \/ pd \in env.denied THEN NoPath
             ELSE LET n == FileName(Join(pd, Base(d)))
                  IN  IF ~Exists(f, n) THEN NoPath
                      ELSE IF IsDir(f[n].mode) THEN n.p
                      ELSE IF "symlink" \in f[n].mode THEN RealDir(f, env, f[n].content)
                      ELSE NoPath

\* os.Lstat(path): the entry that path names, the last element not followed;
\* NoName when it fails
Lstat_In(f, env, pd, name) ==
    IF pd = NoPath \/ pd \in env.denied THEN NoName
    ELSE IF Exists(f, name) THEN name
    ELSE NoName

Lstat_Dir(f, env, pd, base) == Lstat_In(f, env, pd, FileName(Join(pd, base)))

Lstat(f, env, path) == Lstat_Dir(f, env, RealDir(f, env, Dir(path)), Base(path))

\* filepath.Abs
Abs(env, p) ==
    IF IsAbs(p) THEN [err |-> FALSE, path |-> Clean(p)]
    ELSE IF env.getwd THEN [err |-> FALSE, path |-> Join(Cwd, p)]
    ELSE [err |-> TRUE, path |-> <<>>]

EmptySelector == [Glob |-> <<>>, Ext |-> <<>>, Files |-> <<>>, Exclude |-> <<>>]

\* Mutant: Ext keeps its leading dot.
normalize_NoTrim(env, root, sel) ==
    LET abs == Abs(env, IF root = <<>> THEN <<Dot>> ELSE root)
    IN  IF abs.err THEN [err |-> TRUE, root |-> <<>>, sel |-> sel]
        ELSE [err |-> FALSE, root |-> abs.path, sel |-> sel]

normalize(env, root, sel) ==
    LET abs == Abs(env, IF root = <<>> THEN <<Dot>> ELSE root)
    IN  IF abs.err THEN [err |-> TRUE, root |-> <<>>, sel |-> sel]
        ELSE [err |-> FALSE, root |-> abs.path,
              sel |-> [sel EXCEPT !.Ext = TrimPrefix(@, <<Dot>>)]]

\* isRegular, from what os.Lstat returned on
isRegular_Info(f, n) ==
    /\ n # NoName
    /\ "symlink" \notin f[n].mode
    /\ IsRegular(f[n].mode)

\* Mutant: os.Stat in place of os.Lstat, which follows a link to its target.
isRegular_Stat(f, env, path) ==
    LET n == Lstat(f, env, path)
        t == IF n # NoName /\ "symlink" \in f[n].mode
             THEN Lstat(f, env, f[n].content) ELSE n
    IN  t # NoName /\ IsRegular(f[t].mode)

isRegular(f, env, path) == isRegular_Info(f, Lstat(f, env, path))

toAbsUnderRoot(env, root, p) == Abs(env, IF IsAbs(p) THEN p ELSE Join(root, p))

\* Mutant: an entry that is not a regular file is an error.
expandFiles_Strict(f, env, root, files) ==
    LET abs == [i \in DOMAIN files |-> toAbsUnderRoot(env, root, files[i])]
    IN  [paths |-> {abs[i].path : i \in {j \in DOMAIN files :
                        ~abs[j].err /\ isRegular(f, env, abs[j].path)}},
         errs |-> {[kind |-> "files", path |-> files[i]] :
                        i \in {j \in DOMAIN files :
                                 abs[j].err \/ ~isRegular(f, env, abs[j].path)}}]

expandFiles(f, env, root, files) ==
    LET abs == [i \in DOMAIN files |-> toAbsUnderRoot(env, root, files[i])]
    IN  [paths |-> {abs[i].path : i \in {j \in DOMAIN files :
                        ~abs[j].err /\ isRegular(f, env, abs[j].path)}},
         errs |-> {[kind |-> "files", path |-> files[i]] :
                        i \in {j \in DOMAIN files : abs[j].err}}]

\* the pattern holds one of the characters that make filepath.Glob match
hasMeta(p) == \E i \in 1..Len(p) : p[i] \in {Star, Question, LBracket, Backslash}

\* cleanGlobPath: the directory part of a pattern without its final slash
cleanGlobPath(p) ==
    IF p = <<>> THEN <<Dot>>
    ELSE IF p = <<Slash>> THEN p
    ELSE SubSeq(p, 1, Len(p) - 1)

\* the names in directory d (os.Stat, Open and Readdirnames); none if d is
\* no directory or cannot be read
DirNames(f, env, d) ==
    LET rd == RealDir(f, env, d)
    IN  IF rd = NoPath \/ rd \in env.denied THEN {}
        ELSE {Base(q) : q \in {e \in Entries(f) : Dir(e) = rd}}

\* filepath.Glob: the names that exist and match, element by element; the
\* only error is a malformed pattern.  A pattern without any special
\* character matches itself if it exists.
RECURSIVE Glob(_, _, _)

\* filepath.Glob, from the directories that the pattern's directory part
\* matched on
Glob_Names(f, env, file, sub) ==
    IF sub.err THEN [err |-> TRUE, matches |-> {}]
    ELSE IF Match(file, <<>>).err
            /\ \E d \in sub.matches : DirNames(f, env, d) # {}
    THEN [err |-> TRUE, matches |-> {}]
    ELSE [err |-> FALSE,
          matches |-> UNION {{Join(d, n) : n \in {m \in DirNames(f, env, d) :
                                               Match(file, m).matched}} :
                             d \in sub.matches}]

\* filepath.Glob, from the split of the pattern in directory and file on
Glob_Split(f, env, pattern, dir, file) ==
    Glob_Names(f, env, file,
        IF ~hasMeta(dir) THEN [err |-> FALSE, matches |-> {dir}]
        ELSE IF dir = pattern THEN [err |-> TRUE, matches |-> {}]
        ELSE Glob(f, env, dir))

Glob(f, env, pattern) ==
    IF Match(pattern, <<>>).err THEN [err |-> TRUE, matches |-> {}]
    ELSE IF ~hasMeta(pattern)
    THEN [err |-> FALSE,
          matches |-> IF Lstat(f, env, pattern) # NoName THEN {pattern} ELSE {}]
    ELSE Glob_Split(f, env, pattern,
            cleanGlobPath(SubSeq(pattern, 1, LastIndexByte(pattern, Slash))),
            SubSeq(pattern, LastIndexByte(pattern, Slash) + 1, Len(pattern)))

expandGlob_Matches(f, env, pattern, g) ==
    IF g.err THEN [paths |-> {}, errs |-> {[kind |-> "glob", path |-> pattern]}]
    ELSE [paths |-> {Clean(m) : m \in {x \in g.matches : isRegular(f, env, x)}},
          errs |-> {}]

\* Mutant: the pattern is joined to the root even when it is absolute.
expandGlob_AlwaysJoined(f, env, root, pattern) ==
    expandGlob_Matches(f, env, pattern, Glob(f, env, Join(root, pattern)))

expandGlob(f, env, root, pattern) ==
    expandGlob_Matches(f, env, pattern,
        Glob(f, env, IF IsAbs(pattern) THEN pattern ELSE Join(root, pattern)))

\* filepath.WalkDir from path p on, which exists: the entries handed to the
\* function, and the directories that could not be read.  A symbolic link
\* is an entry; it is not followed.
RECURSIVE walkDir(_, _, _)
walkDir(f, env, p) ==
    IF ~IsDir(f[FileName(p)].mode) THEN [visited |-> {p}, errs |-> {}]
    ELSE IF p \in env.denied THEN [visited |-> {p}, errs |-> {p}]
    ELSE LET subs == {walkDir(f, env, q) : q \in {e \in Entries(f) : Dir(e) = p}}
         IN  [visited |-> {p} \cup UNION {x.visited : x \in subs},
              errs |-> UNION {x.errs : x \in subs}]

\* filepath.WalkDir(root, walkFn)
WalkDir_From(f, env, root, n) ==
    IF n = NoName THEN [visited |-> {}, errs |-> {root}]
    ELSE walkDir(f, env, n.p)

WalkDir(f, env, root) == WalkDir_From(f, env, root, Lstat(f, env, root))

\* expandExt, from what the walk met on
expandExt_Walked(f, target, w) ==
    [paths |-> {Clean(p) : p \in {q \in w.visited :
                    /\ IsRegular(f[FileName(q)].mode)
                    /\ EqualFold(TrimPrefix(Ext(q), <<Dot>>), target)}},
     errs |-> {[kind |-> "walk", path |-> p] : p \in w.errs}]

expandExt(f, env, root, ext) ==
    expandExt_Walked(f, ToLower(TrimPrefix(ext, <<Dot>>)), WalkDir(f, env, root))

\* match(pattern, name): a malformed pattern matches nothing
match(pattern, name) ==
    LET r == Match(pattern, name) IN ~r.err /\ r.matched

\* Mutant: only the base name is matched against the excludes.
Excluded_BaseOnly(root, p, excludes) ==
    \E i \in DOMAIN excludes : match(excludes[i], Base(p))

\* applyExcludes: path p is dropped
Excluded(root, p, excludes) ==
    \E i \in DOMAIN excludes :
        \/ match(excludes[i], Rel(root, p))
        \/ match(excludes[i], Base(p))
        \/ IsAbs(excludes[i]) /\ match(excludes[i], p)

\* applyExcludes: the paths that no exclude drops, in their order
RECURSIVE applyExcludes(_, _, _)
applyExcludes(root, paths, excludes) ==
    IF paths = <<>> THEN <<>>
    ELSE IF Excluded(root, Head(paths), excludes)
    THEN applyExcludes(root, Tail(paths), excludes)
    ELSE <<Head(paths)>> \o applyExcludes(root, Tail(paths), excludes)

\* sort.Strings, by insertion
RECURSIVE Insert(_, _)
Insert(x, sorted) ==
    IF sorted = <<>> THEN <<x>>
    ELSE IF LexLess(Head(sorted), x) THEN <<Head(sorted)>> \o Insert(x, Tail(sorted))
    ELSE <<x>> \o sorted

RECURSIVE SortStrings(_)
SortStrings(q) == IF q = <<>> THEN <<>> ELSE Insert(Head(q), SortStrings(Tail(q)))

\* The keys of a map in the order a range over it yields them.  The
\* language leaves the order open; the model takes the ascending and the
\* descending one.
RECURSIVE MapKeys(_, _)
MapKeys(S, order) ==
    IF S = {} THEN <<>>
    ELSE LET x == CHOOSE y \in S : \A z \in S \ {y} :
                    IF order = "asc" THEN LexLess(y, z) ELSE LexLess(z, y)
         IN  <<x>> \o MapKeys(S \ {x}, order)

\* Mutant: the paths are returned in the order of the map.
SortPaths_None(q) == q

\* sort.Strings(paths) at the end of Discover
SortPaths(q) == SortStrings(q)

\* what Discover returns: the paths (nil or a slice), the joined error and
\* the errors it joins, and the queries made to the file system
Discovered(paths, isNil, errs, ops) ==
    [paths |-> paths, nil |-> isNil, err |-> errs # {}, errs |-> errs, ops |-> ops]

\* Discover, from the paths of the map on: the excludes, the sort, and the
\* error joined from those collected
Discover_Filter(root, sel, all, errs, ops) ==
    Discovered(SortPaths(IF Len(sel.Exclude) > 0 /\ Len(all) > 0
                         THEN applyExcludes(root, all, sel.Exclude)
                         ELSE all),
               FALSE, errs, ops)

\* Discover, from what the three mechanisms found on: the map of results
\* and its keys
Discover_Collect(env, root, sel, fl, gl, ex, ops) ==
    Discover_Filter(root, sel, MapKeys(fl.paths \cup gl.paths \cup ex.paths, env.order),
                    fl.errs \cup gl.errs \cup ex.errs, ops)

\* a mechanism that is not used
NoneFound == [paths |-> {}, errs |-> {}]

\* Discover, from the normalized root and selector on
Discover_Expand(f, env, root, sel, getwd) ==
    IF sel.Glob = <<>> /\ sel.Ext = <<>> /\ Len(sel.Files) = 0
    THEN Discovered(<<>>, TRUE, {[kind |-> "selector", path |-> <<>>]}, getwd)
    ELSE Discover_Collect(env, root, sel,
            IF Len(sel.Files) > 0 THEN expandFiles(f, env, root, sel.Files) ELSE NoneFound,
            IF sel.Glob # <<>> THEN expandGlob(f, env, root, sel.Glob) ELSE NoneFound,
            IF sel.Ext # <<>> THEN expandExt(f, env, root, sel.Ext) ELSE NoneFound,
            getwd \o (IF Len(sel.Files) > 0 THEN <<"lstat">> ELSE <<>>)
                  \o (IF sel.Glob # <<>> THEN <<"glob">> ELSE <<>>)
                  \o (IF sel.Ext # <<>> THEN <<"walk">> ELSE <<>>))

\* Discover, from what normalize returned on
Discover_Normalized(f, env, root, nz, getwd) ==
    IF nz.err
    THEN Discovered(<<>>, TRUE, {[kind |-> "invalid root", path |-> root]}, getwd)
    ELSE Discover_Expand(f, env, nz.root, nz.sel, getwd)

Discover(f, env, root, sel) ==
    Discover_Normalized(f, env, root, normalize(env, root, sel),
        IF IsAbs(IF root = <<>> THEN <<Dot>> ELSE root) THEN <<>> ELSE <<"getwd">>)

-----------------------------------------------------------------------------
(* internal/cli: parseArgs and Run *)

\* the default of --dry-run
DryRunDefault == TRUE

\* The fields of Config that Run reads after parseArgs has validated it.
Config(args) ==
    [Pattern |-> args.Pattern, Replace |-> args.Replace,
     Backup |-> args.Backup, NoColor |-> args.NoColor, Context |-> args.Context,
     StrictEOL |-> args.StrictEOL,
     DryRun |-> IF args.DryRun = "unset" THEN DryRunDefault ELSE args.DryRun = "true"]

\* Mutant: the selection is not validated.
parseArgs_NoSelectionCheck(args) ==
    IF args.Malformed THEN "flag: parse error"
    ELSE IF args.Pattern = <<>> \/ args.Replace = <<>>
        THEN "--pattern and --replace are required"
    ELSE IF args.Regex THEN "regex mode not yet implemented"
    ELSE IF args.Yes /\ args.Interactive
        THEN "--yes and --interactive are mutually exclusive"
    ELSE "nil"

\* parseArgs: the first validation that fails names the error
parseArgs(args) ==
    IF args.Malformed THEN "flag: parse error"
    ELSE IF args.Pattern = <<>> \/ args.Replace = <<>>
        THEN "--pattern and --replace are required"
    ELSE IF args.Regex THEN "regex mode not yet implemented"
    ELSE IF args.Yes /\ args.Interactive
        THEN "--yes and --interactive are mutually exclusive"
    ELSE IF args.Glob = <<>> /\ args.Ext = <<>> /\ Len(args.Files) = 0
        THEN "no files specified"
    ELSE "nil"

\* the regular files of the tree
RegularFiles(f) == {p \in Entries(f) : IsRegular(f[FileName(p)].mode)}

\* the directories of the tree
Dirs(f) == {p \in Entries(f) : IsDir(f[FileName(p)].mode)}

\* The environments a call can meet: at most MaxDenied directories are out
\* of reach.
Envs(f) ==
    {Env(g, D, o) : g \in BOOLEAN, o \in {"asc", "desc"},
                   D \in {X \in SUBSET Dirs(f) : Cardinality(X) <= MaxDenied}}

\* discovery.Selector{Glob: cfg.Glob, Ext: cfg.Ext, Files: cfg.Files, Exclude: nil}
Selector(args) ==
    [Glob |-> args.Glob, Ext |-> args.Ext, Files |-> args.Files, Exclude |-> <<>>]

RunIdle ==
    [pc |-> "start",
     cfg |-> [Pattern |-> <<>>, Replace |-> <<>>, Backup |-> FALSE, NoColor |-> FALSE,
              Context |-> 0, StrictEOL |-> FALSE, DryRun |-> DryRunDefault],
     paths |-> <<>>, discErr |-> FALSE, i |-> 1,
     hadErrors |-> FALSE, hadChanges |-> FALSE, code |-> -1]

\* return code
Exit(r, code) == [r EXCEPT !.pc = "exit", !.code = code]

\* Mutant: changes win over errors.
ExitCode_ChangesFirst(hadErrors, hadChanges) ==
    IF hadChanges THEN 1 ELSE IF hadErrors THEN 2 ELSE 0

\* the last lines of Run
ExitCode(hadErrors, hadChanges) ==
    IF hadErrors THEN 2 ELSE IF hadChanges THEN 1 ELSE 0

\* Mutant: the first file that fails ends the loop.
Continue_Break(r) == [r EXCEPT !.pc = "loop", !.i = Len(r.paths) + 1]

\* continue: on to the next path of the range
Continue(r) == [r EXCEPT !.pc = "loop", !.i = r.i + 1]

\* Mutant: changes are written whatever --dry-run says.
Applies_Always(cfg) == TRUE

\* the else branch of "if cfg.DryRun"
Applies(cfg) == ~cfg.DryRun

\* The tree Run works on: files "a.t", "ab" and "b.t" in the working directory
RunNames == {<<97, Dot, 116>>, <<97, 98>>, <<98, Dot, 116>>}
RunPaths == {Join(Cwd, n) : n \in RunNames}

\* a directory next to them, empty
RunSubdir == Join(Cwd, <<115>>)

\* "a", "b" and a binary file
RunContents == {<<97>>, <<98>>, <<97, NUL>>}

\* --pattern and --replace: a -> b, a -> a, a -> "a\n", and one of them missing
ArgPairs ==
    {<<<<97>>, <<98>>>>, <<<<97>>, <<97>>>>, <<<<97>>, <<97, NL>>>>,
     <<<<>>, <<98>>>>, <<<<97>>, <<>>>>}

\* --glob, --ext and --files: nothing; --ext "."; --files ab; --glob "*";
\* --ext t; --glob "[" --files a.t
Selections ==
    {[Glob |-> <<>>, Ext |-> <<>>, Files |-> <<>>],
     [Glob |-> <<>>, Ext |-> <<Dot>>, Files |-> <<>>],
     [Glob |-> <<>>, Ext |-> <<>>, Files |-> <<<<97, 98>>>>],
     [Glob |-> <<Star>>, Ext |-> <<>>, Files |-> <<>>],
     [Glob |-> <<>>, Ext |-> <<116>>, Files |-> <<>>],
     [Glob |-> <<LBracket>>, Ext |-> <<>>, Files |-> <<<<97, Dot, 116>>>>]}

\* safereplace --pattern a --replace b --ext t
BaseArgs ==
    [Malformed |-> FALSE, Pattern |-> <<97>>, Replace |-> <<98>>, Regex |-> FALSE,
     Yes |-> FALSE, Interactive |-> FALSE, Glob |-> <<>>, Ext |-> <<116>>,
     Files |-> <<>>, Backup |-> FALSE, DryRun |-> "unset", NoColor |-> FALSE,
     Context |-> 0, StrictEOL |-> FALSE]

\* Command lines: every pattern, selection and mode of operation (--no-color
\* where the preview is printed), and the flags that parseArgs only validates
Args ==
    {a \in {[BaseArgs EXCEPT !.Pattern = pr[1], !.Replace = pr[2], !.Glob = sel.Glob,
                             !.Ext = sel.Ext, !.Files = sel.Files, !.Backup = b,
                             !.DryRun = dr, !.StrictEOL = se, !.NoColor = nc] :
               pr \in ArgPairs, sel \in Selections, b \in BOOLEAN,
               dr \in {"unset", "true", "false"}, se \in BOOLEAN, nc \in BOOLEAN} :
        a.DryRun = "false" => ~a.NoColor}
    \cup
    {[BaseArgs EXCEPT !.Malformed = m, !.Regex = rx, !.Yes = y, !.Interactive = ia,
                      !.DryRun = dr] :
        m \in BOOLEAN, rx \in BOOLEAN, y \in BOOLEAN, ia \in BOOLEAN,
        dr \in {"unset", "false"}}

\* no direct call made
UnitIdle == [fn |-> "none"]

HistIdle ==
    [fsInit |-> <<>>, args |-> BaseArgs, discoverCalled |-> FALSE,
     dryArg |-> "unset", sel |-> EmptySelector,
     denied |-> {}, discErrs |-> {}, discovered |-> <<>>,
     processed |-> <<>>, failed |-> FALSE, differed |-> {}, committed |-> {}]

\* A line of stderr: what it reports and for which path.  The text of the
\* error that follows is left out.
Warn(kind, p) == [kind |-> kind, path |-> p]

\* Mutant: any discovery error ends the run.
Fatal_AnyError(d) == d.err

\* discErr != nil && len(paths) == 0
Fatal(d) == d.err /\ Len(d.paths) = 0

\* parseArgs, Discover and the sort, up to the loop.  What Discover returns
\* depends on the selection and on the environment only, so these are
\* drawn before the rest of the command line.
Run_Start ==
    /\ run.pc = "start"
    /\ \/ \E args \in Args :
            /\ parseArgs(args) # "nil"
            /\ run' = Exit(run, 2)
            /\ stderr' = Append(stderr, Warn("config", <<>>))
            /\ hist' = [hist EXCEPT !.failed = TRUE, !.dryArg = args.DryRun,
                                    !.args = args]
       \/ \E sel \in {Selector(a) : a \in Args}, env \in Envs(fs) :
            \E d \in {Discover(fs, env, <<Dot>>, sel)} :
            LET h == [hist EXCEPT !.sel = sel, !.denied = env.denied, !.discErrs = d.errs,
                                  !.discovered = d.paths, !.discoverCalled = TRUE]
            IN  \E args \in {a \in Args : Selector(a) = sel /\ parseArgs(a) = "nil"} :
                    \/ /\ Fatal(d)
                       /\ run' = Exit([run EXCEPT !.cfg = Config(args)], 2)
                       /\ stderr' = Append(stderr, Warn("discovery", <<>>))
                       /\ hist' = [h EXCEPT !.failed = TRUE, !.dryArg = args.DryRun,
                                             !.args = args]
                    \/ /\ ~Fatal(d)
                       /\ run' = [run EXCEPT !.pc = "loop", !.cfg = Config(args),
                                             !.paths = SortStrings(d.paths),
                                             !.discErr = d.err, !.i = 1]
                       /\ stderr' = stderr
                       /\ hist' = [h EXCEPT !.failed = d.err, !.dryArg = args.DryRun,
                                             !.args = args]
    /\ UNCHANGED <<fs, umask, wa, trace, fs0, crashed, calls, stdout, unit>>

\* Mutant: what Diff says about the change is not looked at.
Suppressed_Never(d) == FALSE

\* if !changed { continue }: Diff found no meaningful change
Suppressed(d) == ~d.changed

\* One turn of the loop, up to the call of WriteAtomic
Run_Process ==
    /\ run.pc = "loop"
    /\ run.i <= Len(run.paths)
    /\ LET p   == run.paths[run.i]
           cfg == run.cfg
       IN  \E readOk \in BOOLEAN :
            LET res == SubstituteLiteralFile(ReadFile(fs, p, readOk), cfg.Pattern, cfg.Replace)
                d   == Diff(res.Before, res.After,
                            DiffOptions(~cfg.NoColor, cfg.Context, cfg.StrictEOL))
                h   == [hist EXCEPT !.processed = Append(@, p)]
                hdr == [path |-> p, matches |-> res.Matches,
                        replacements |-> res.Replacements, preview |-> <<>>]
            IN  \/ /\ res.err # "nil"
                   /\ stderr' = Append(stderr, Warn("warn", p))
                   /\ run' = Continue([run EXCEPT !.hadErrors = TRUE])
                   /\ hist' = [h EXCEPT !.failed = TRUE]
                   /\ UNCHANGED <<stdout, wa, trace, fs0>>
                \/ /\ res.err = "nil" /\ ~res.Changed
                   /\ run' = Continue(run)
                   /\ hist' = h
                   /\ UNCHANGED <<stdout, stderr, wa, trace, fs0>>
                \* Diff never returns an error, so this branch is dead
                \/ /\ res.err = "nil" /\ res.Changed /\ d.err # "nil"
                   /\ stderr' = Append(stderr, Warn("warn: diff error", p))
                   /\ run' = Continue([run EXCEPT !.hadChanges = TRUE, !.hadErrors = TRUE])
                   /\ hist' = [h EXCEPT !.failed = TRUE]
                   /\ UNCHANGED <<stdout, wa, trace, fs0>>
                \/ /\ res.err = "nil" /\ res.Changed /\ d.err = "nil" /\ Suppressed(d)
                   /\ run' = Continue([run EXCEPT !.hadChanges = TRUE])
                   /\ hist' = h
                   /\ UNCHANGED <<stdout, stderr, wa, trace, fs0>>
                \/ /\ res.err = "nil" /\ res.Changed /\ d.err = "nil" /\ ~Suppressed(d)
                   /\ ~Applies(cfg)
                   /\ stdout' = Append(stdout, [hdr EXCEPT !.preview = d.preview])
                   /\ run' = Continue([run EXCEPT !.hadChanges = TRUE])
                   /\ hist' = [h EXCEPT !.differed = @ \cup {p}]
                   /\ UNCHANGED <<stderr, wa, trace, fs0>>
                \/ /\ res.err = "nil" /\ res.Changed /\ d.err = "nil" /\ ~Suppressed(d)
                   /\ Applies(cfg)
                   /\ stdout' = Append(stdout, hdr)
                   /\ run' = [run EXCEPT !.hadChanges = TRUE, !.pc = "apply"]
                   /\ wa' = WriteAtomic(p, res.After, cfg.Backup, "")
                   /\ trace' = <<>>
                   /\ fs0' = fs
                   /\ hist' = [h EXCEPT !.differed = @ \cup {p}]
                   /\ UNCHANGED stderr
    /\ UNCHANGED <<fs, umask, crashed, calls, unit>>

\* WriteAtomic has returned to the loop
Run_Applied ==
    /\ run.pc = "apply"
    /\ wa.pc = "done"
    /\ \/ /\ wa.err # "nil"
          /\ stderr' = Append(stderr, Warn("error: apply", wa.path))
          /\ run' = Continue([run EXCEPT !.hadErrors = TRUE])
          /\ hist' = [hist EXCEPT !.failed = TRUE]
       \/ /\ wa.err = "nil"
          /\ stderr' = stderr
          /\ run' = Continue(run)
          /\ hist' = [hist EXCEPT !.committed = @ \cup {wa.path}]
    /\ wa' = WaIdle
    /\ trace' = <<>>
    /\ fs0' = fs
    /\ UNCHANGED <<fs, umask, crashed, calls, stdout, unit>>

\* after the loop: the discovery error, then the exit code
Run_Finish ==
    /\ run.pc = "loop"
    /\ run.i > Len(run.paths)
    /\ stderr' = IF run.discErr THEN Append(stderr, Warn("discovery", <<>>))
                                ELSE stderr
    /\ run' = Exit([run EXCEPT !.hadErrors = @ \/ run.discErr],
                   ExitCode(run.hadErrors \/ run.discErr, run.hadChanges))
    /\ UNCHANGED <<fs, umask, wa, trace, fs0, crashed, calls, stdout, hist, unit>>

Init ==
    /\ umask = Mode0022
    /\ \E T \in SUBSET RunPaths :
        /\ Cardinality(T) <= MaxFiles
        /\ \E files \in [{FileName(p) : p \in T} ->
                            {File(c, Mode0644, TRUE) : c \in RunContents}] :
              fs = Put(Put(files, FileName(Cwd), File(<<>>, ModeDir, TRUE)),
                       FileName(RunSubdir), File(<<>>, ModeDir, TRUE))
    /\ wa = WaIdle
    /\ trace = <<>>
    /\ fs0 = fs
    /\ crashed = FALSE
    /\ calls = 0
    /\ run = RunIdle
    /\ stdout = <<>>
    /\ stderr = <<>>
    /\ hist = [HistIdle EXCEPT !.fsInit = fs]
    /\ unit = UnitIdle

Next ==
    \/ Run_Start
    \/ Run_Process
    \/ WriteAtomicStep
    \/ Run_Applied
    \/ Run_Finish

Spec == Init /\ [][Next]_vars

-----------------------------------------------------------------------------
(* WriteAtomic called directly, as the package's tests call it *)

ApplyPath == <<97>>

ApplyContents == {<<97, NL>>}
ApplyData == {<<98, NL>>, <<>>}
ApplyModes == {Mode0644, Mode0664, Mode4755}
Umasks == {{}, Mode0022}
ApplySuffixes == {"", ".old"}

\* Backups of earlier runs, by candidate number: none, a gap at the first
\* name, all but the last name taken, every name taken.
FewBackups == {{}, {1}}
ManyBackups == {0..(BackupProbeLimit - 2), 0..(BackupProbeLimit - 1)}

OldBackup == File(<<120>>, Mode0644, TRUE)

InitApply ==
    /\ umask \in Umasks
    /\ \E present \in BOOLEAN, c \in ApplyContents, m \in ApplyModes,
          pre \in FewBackups \cup ManyBackups, s \in ApplySuffixes :
        /\ ~present => m = Mode0644
        \* the directories with a thousand backups come in one variety
        /\ pre \in ManyBackups => present /\ m = Mode0644 /\ s = "" /\ umask = {}
        /\ fs = [n \in {BakName(ApplyPath, BackupSuffix(s), i) : i \in pre}
                       \cup (IF present THEN {FileName(ApplyPath)} ELSE {})
                   |-> IF n.k = "file" THEN File(c, m, TRUE) ELSE OldBackup]
        /\ wa = [WaIdle EXCEPT !.suffix = s]
    /\ trace = <<>>
    /\ fs0 = fs
    /\ crashed = FALSE
    /\ calls = 0
    /\ run = [RunIdle EXCEPT !.pc = "off"]
    /\ stdout = <<>>
    /\ stderr = <<>>
    /\ hist = HistIdle
    /\ unit = UnitIdle

\* apply.WriteAtomic(p, data, Options{Backup: backup, BackupSuffix: suffix});
\* every call of a behaviour uses the suffix chosen at the start.
Call ==
    /\ ~crashed
    /\ run.pc = "off"
    /\ wa.pc \in {"idle", "done"}
    /\ calls < MaxCalls
    /\ \E data \in ApplyData, backup \in BOOLEAN :
        wa' = WriteAtomic(ApplyPath, data, backup, wa.suffix)
    /\ trace' = <<>>
    /\ fs0' = fs
    /\ calls' = calls + 1
    /\ UNCHANGED <<fs, umask, crashed, run, stdout, stderr, hist, unit>>

NextApply ==
    \/ Call
    \/ WriteAtomicStep
    \/ Crash

SpecApply == InitApply /\ [][NextApply]_vars

-----------------------------------------------------------------------------
(* Discover called directly, as the package's tests call it *)

\* a regular file, a directory, a symbolic link to target
Regular == File(<<120>>, Mode0644, TRUE)
Directory == File(<<>>, ModeDir, TRUE)
Symlink(target) == File(target, ModeSymlink, TRUE)

\* the root of every tree, with the regular file a.t
BaseTree ==
    [n \in {FileName(Cwd), FileName(<<Slash, 114, Slash, 97, Dot, 116>>)} |->
        IF n.p = Cwd THEN Directory ELSE Regular]

\* What a tree can hold besides: B.T, the hidden file .t and c, without
\* extension; the directory d.t and l.t, a link to a.t; the directory s with
\* e.t and k, a link to s; the directory /o with x.t, outside the root
Extras ==
    {[n \in {FileName(<<Slash, 114, Slash, 66, Dot, 84>>), FileName(<<Slash, 114, Slash, Dot, 116>>),
             FileName(<<Slash, 114, Slash, 99>>)} |-> Regular],
     [n \in {FileName(<<Slash, 114, Slash, 100, Dot, 116>>), FileName(<<Slash, 114, Slash, 108, Dot, 116>>)} |->
        IF n.p = <<Slash, 114, Slash, 100, Dot, 116>> THEN Directory ELSE Symlink(<<Slash, 114, Slash, 97, Dot, 116>>)],
     [n \in {FileName(<<Slash, 114, Slash, 115>>), FileName(<<Slash, 114, Slash, 115, Slash, 101, Dot, 116>>), FileName(<<Slash, 114, Slash, 107>>)} |->
        IF n.p = <<Slash, 114, Slash, 115>> THEN Directory
        ELSE IF n.p = <<Slash, 114, Slash, 107>> THEN Symlink(<<Slash, 114, Slash, 115>>)
        ELSE Regular],
     [n \in {FileName(<<Slash, 111>>), FileName(<<Slash, 111, Slash, 120, Dot, 116>>)} |->
        IF n.p = <<Slash, 111>> THEN Directory ELSE Regular]}

\* the entries of all the trees in X, on top of tree f
RECURSIVE Merge(_, _)
Merge(f, X) ==
    IF X = {} THEN f
    ELSE LET g == CHOOSE x \in X : TRUE
         IN  Merge([n \in DOMAIN f \cup DOMAIN g |-> IF n \in DOMAIN g THEN g[n] ELSE f[n]],
                   X \ {g})

Trees == {Merge(BaseTree, X) : X \in {Y \in SUBSET Extras : Cardinality(Y) <= MaxExtras}}

\* the root given to Discover: the working directory by its path, or ""
Roots == {Cwd, <<>>}

\* Glob: *.t, a malformed pattern, */*.t, the absolute path of a.t
Globs == {<<Star, Dot, 116>>, <<LBracket>>, <<Star, Slash, Star, Dot, 116>>, <<Slash, 114, Slash, 97, Dot, 116>>}

\* Ext: t, .T, a lone dot, two dots
Exts == {<<116>>, <<Dot, 84>>, <<Dot>>, <<Dot, Dot>>}

\* Files: a.t twice, once as ./a.t; a missing file and a.t; a link and a
\* directory; a file outside the root and one reached through a linked
\* directory; a missing file alone
FileLists ==
    {<<<<97, Dot, 116>>, <<Dot, Slash, 97, Dot, 116>>>>, <<<<109, Dot, 116>>, <<97, Dot, 116>>>>, <<<<108, Dot, 116>>, <<100, Dot, 116>>>>,
     <<<<Slash, 111, Slash, 120, Dot, 116>>, <<107, Slash, 101, Dot, 116>>>>, <<<<109, Dot, 116>>>>}

\* Exclude: a base name; a pattern for the relative path; an absolute path;
\* a malformed pattern; a relative path that leaves the root
Excludes ==
    {<<<<97, Dot, 116>>>>, <<<<115, Slash, Star>>>>, <<<<Slash, 114, Slash, 97, Dot, 116>>>>, <<<<LBracket>>>>, <<<<Dot, Dot, Slash, 111, Slash, Star>>>>}

\* The selectors: at least two of the four fields are left empty; and the
\* three mechanisms together, with every exclude
Selectors ==
    {sel \in [Glob : Globs \cup {<<>>}, Ext : Exts \cup {<<>>},
              Files : FileLists \cup {<<>>}, Exclude : Excludes \cup {<<>>}] :
        \/ sel.Glob = <<>> /\ sel.Ext = <<>>
        \/ sel.Glob = <<>> /\ sel.Files = <<>>
        \/ sel.Glob = <<>> /\ sel.Exclude = <<>>
        \/ sel.Ext = <<>> /\ sel.Files = <<>>
        \/ sel.Ext = <<>> /\ sel.Exclude = <<>>
        \/ sel.Files = <<>> /\ sel.Exclude = <<>>}
    \cup
    {[Glob |-> <<Star, Dot, 116>>, Ext |-> <<116>>, Files |-> <<<<97, Dot, 116>>>>, Exclude |-> x] :
        x \in Excludes \cup {<<>>}}

InitDiscover ==
    /\ fs \in Trees
    /\ umask = Mode0022
    /\ wa = WaIdle
    /\ trace = <<>>
    /\ fs0 = fs
    /\ crashed = FALSE
    /\ calls = 0
    /\ run = [RunIdle EXCEPT !.pc = "off"]
    /\ stdout = <<>>
    /\ stderr = <<>>
    /\ hist = HistIdle
    /\ unit = UnitIdle

\* discovery.Discover(root, sel); the working directory matters only to a
\* relative root
Call_Discover ==
    /\ unit.fn = "none"
    /\ \E root \in Roots, sel \in Selectors, env \in Envs(fs) :
        /\ IsAbs(root) => env.getwd
        /\ unit' = [fn |-> "Discover", root |-> root, sel |-> sel, env |-> env,
                    ret |-> Discover(fs, env, root, sel)]
    /\ UNCHANGED <<fs, umask, wa, trace, fs0, crashed, calls, run, stdout, stderr, hist>>

NextDiscover ==
    \/ Call_Discover

SpecDiscover == InitDiscover /\ [][NextDiscover]_vars

-----------------------------------------------------------------------------
(* Discover called with the path of an entry of the tree as its Glob *)

\* the directory s of the root
ExactSubdir == Join(Cwd, <<115>>)

\* The files a tree can hold, named a, *, ?, [a] and \a in the root, and [
\* and a* in s
ExactFiles ==
    {Join(Cwd, n) : n \in {<<97>>, <<Star>>, <<Question>>, <<LBracket, 97, RBracket>>,
                            <<Backslash, 97>>}}
    \cup {Join(ExactSubdir, n) : n \in {<<LBracket>>, <<97, Star>>}}

\* the root, s, and at most MaxFiles of the files
ExactTrees ==
    {[n \in {FileName(Cwd), FileName(ExactSubdir)} \cup {FileName(q) : q \in T} |->
        IF n.p \in {Cwd, ExactSubdir} THEN Directory ELSE Regular] :
     T \in {X \in SUBSET ExactFiles : Cardinality(X) <= MaxFiles}}

InitExact ==
    /\ fs \in ExactTrees
    /\ umask = Mode0022
    /\ wa = WaIdle
    /\ trace = <<>>
    /\ fs0 = fs
    /\ crashed = FALSE
    /\ calls = 0
    /\ run = [RunIdle EXCEPT !.pc = "off"]
    /\ stdout = <<>>
    /\ stderr = <<>>
    /\ hist = HistIdle
    /\ unit = UnitIdle

\* discovery.Discover(root, Selector{Glob: p}) for an entry p of the tree,
\* alone or with Ext
Call_DiscoverExact ==
    /\ unit.fn = "none"
    /\ \E root \in Roots, p \in Entries(fs), ext \in {<<>>, <<116>>}, env \in Envs(fs) :
        /\ IsAbs(root) => env.getwd
        /\ \E sel \in {[Glob |-> p, Ext |-> ext, Files |-> <<>>, Exclude |-> <<>>]} :
            unit' = [fn |-> "Discover", root |-> root, sel |-> sel, env |-> env,
                     ret |-> Discover(fs, env, root, sel)]
    /\ UNCHANGED <<fs, umask, wa, trace, fs0, crashed, calls, run, stdout, stderr, hist>>

NextExact ==
    \/ Call_DiscoverExact

SpecExact == InitExact /\ [][NextExact]_vars

-----------------------------------------------------------------------------
(* SubstituteLiteralFile and Diff called directly *)

\* the texts of at most n bytes over an alphabet
Texts(alphabet, n) == UNION {[1..k -> alphabet] : k \in 0..n}

\* the file that SubstituteLiteralFile is called on
TextPath == Join(Cwd, <<97, Dot, 116>>)

\* what it holds: "a", "b" and the byte 0x00
TextContents == Texts({97, 98, NUL}, MaxLen)

\* --pattern and --replace
TextPatterns == Texts({97, 98}, MaxLen - 1)

\* the texts handed to Diff: "a" and newlines
DiffBefores == Texts({97, NL}, MaxLen - 1)
DiffAfters == Texts({97, NL}, MaxLen)

\* --context: the default, and five lines
Contexts == {0, 5}

InitText ==
    /\ \E c \in TextContents :
          fs = [n \in {FileName(Cwd), FileName(TextPath)} |->
                  IF n.p = Cwd THEN Directory ELSE File(c, Mode0644, TRUE)]
    /\ umask = Mode0022
    /\ wa = WaIdle
    /\ trace = <<>>
    /\ fs0 = fs
    /\ crashed = FALSE
    /\ calls = 0
    /\ run = [RunIdle EXCEPT !.pc = "off"]
    /\ stdout = <<>>
    /\ stderr = <<>>
    /\ hist = HistIdle
    /\ unit = UnitIdle

\* processor.SubstituteLiteralFile(path, pattern, repl)
Call_SubstituteLiteralFile ==
    /\ unit.fn = "none"
    /\ \E pattern \in TextPatterns, repl \in TextPatterns, readOk \in BOOLEAN :
        unit' = [fn |-> "SubstituteLiteralFile", path |-> TextPath, pattern |-> pattern,
                 repl |-> repl, readOk |-> readOk,
                 ret |-> SubstituteLiteralFile(ReadFile(fs, TextPath, readOk), pattern, repl)]
    /\ UNCHANGED <<fs, umask, wa, trace, fs0, crashed, calls, run, stdout, stderr, hist>>

\* diff.Diff(before, after, opts)
Call_Diff ==
    /\ unit.fn = "none"
    /\ \E before \in DiffBefores, after \in DiffAfters, color \in BOOLEAN,
          context \in Contexts, strict \in BOOLEAN :
        unit' = [fn |-> "Diff", before |-> before, after |-> after,
                 opts |-> DiffOptions(color, context, strict),
                 ret |-> Diff(before, after, DiffOptions(color, context, strict))]
    /\ UNCHANGED <<fs, umask, wa, trace, fs0, crashed, calls, run, stdout, stderr, hist>>

NextText ==
    \/ Call_SubstituteLiteralFile
    \/ Call_Diff

SpecText == InitText /\ [][NextText]_vars

-----------------------------------------------------------------------------
(* Claims about WriteAtomic *)

Target == FileName(wa.path)

\* the current call made the system call op, and it succeeded
Did(op) == \E i \in 1..Len(trace) : trace[i] = [op |-> op, ok |-> TRUE]

\* the current call made the system call op
Tried(op) == \E i \in 1..Len(trace) : trace[i].op = op

BackupDone == wa.backup /\ Did("backup.sync")

\* C1: at every point of a WriteAtomic call, a kill included, the target
\* holds the whole original content or the whole new content, and what it
\* holds is flushed; until the rename succeeds the target is the original
\* file; once a requested backup is complete it is present, flushed, with
\* the original content.
C1_TargetNeverPartial ==
    (wa.pc # "idle" /\ Exists(fs0, Target)) =>
        /\ Exists(fs, Target)
        /\ fs[Target].content \in {fs0[Target].content, wa.data}
        /\ fs[Target].synced
        /\ ~wa.renamed => fs[Target] = fs0[Target]
        /\ BackupDone =>
            /\ Exists(fs, wa.bak)
            /\ fs[wa.bak].content = fs0[Target].content
            /\ fs[wa.bak].synced

\* killed between the backup and the rename, the temporary file written
C1_Witness ==
    /\ crashed
    /\ BackupDone
    /\ wa.pc = "rename"
    /\ wa.data # fs0[Target].content

\* C2: when WriteAtomic returns an error the target is as it was before the
\* call (same content, same permission bits, or still missing); a target
\* that differs from the original was renamed over.
C2_ErrorLeavesTarget ==
    /\ (wa.pc = "done" /\ wa.err # "nil") =>
        /\ Exists(fs, Target) = Exists(fs0, Target)
        /\ Exists(fs0, Target) =>
            /\ fs[Target].content = fs0[Target].content
            /\ Perm(fs[Target].mode) = Perm(fs0[Target].mode)
    /\ (wa.pc # "idle" /\ Exists(fs0, Target) /\ Exists(fs, Target)
            /\ fs[Target] # fs0[Target]) => Did("rename")

\* the rename itself failed, after a backup and a fully written temporary file
C2_Witness ==
    /\ wa.pc = "done"
    /\ wa.err = "rename"
    /\ wa.backup
    /\ wa.data # fs0[Target].content

\* C3: when WriteAtomic returns success the target existed, now holds
\* exactly data, and has the permission bits it had when the call started.
C3_SuccessReplaces ==
    (wa.pc = "done" /\ wa.err = "nil") =>
        /\ Exists(fs0, Target)
        /\ Exists(fs, Target)
        /\ fs[Target].content = wa.data
        /\ Perm(fs[Target].mode) = Perm(fs0[Target].mode)

\* success on a target whose mode is neither the temporary file's nor
\* untouched by the umask
C3_Witness ==
    /\ wa.pc = "done"
    /\ wa.err = "nil"
    /\ fs0[Target].mode = Mode0664
    /\ umask = Mode0022
    /\ wa.data # fs0[Target].content

\* C4 (as claimed): once the backup step of a call is complete, the backup
\* holds the target's original content and carries the target's original
\* permission bits, whatever the original mode, also when a later step
\* fails.
C4_BackupContentAndMode ==
    (wa.pc # "idle" /\ BackupDone) =>
        /\ Exists(fs, wa.bak)
        /\ fs[wa.bak].content = fs0[Target].content
        /\ Perm(fs[wa.bak].mode) = Perm(fs0[Target].mode)

\* C5: a call with Backup writes its backup to the first candidate name
\* that did not exist when the call started; every backup that existed
\* keeps its file; when every candidate exists the call fails with the
\* file system as it was.
BackupsOf(f, p, s) ==
    {n.i : n \in {m \in DOMAIN f : m.k = "bak" /\ m.p = p /\ m.s = s}}

C5_BackupNeverOverwrites ==
    (wa.pc # "idle" /\ wa.backup) =>
        LET s   == BackupSuffix(wa.suffix)
            old == BackupsOf(fs0, wa.path, s)
        IN  /\ \A i \in old : /\ Exists(fs, BakName(wa.path, s, i))
                               /\ fs[BakName(wa.path, s, i)] = fs0[BakName(wa.path, s, i)]
            /\ wa.bak # NoName =>
                /\ wa.bak.k = "bak" /\ wa.bak.p = wa.path /\ wa.bak.s = s
                /\ wa.bak.i \notin old
                /\ \A j \in 0..(wa.bak.i - 1) : j \in old
            /\ BackupsOf(fs, wa.path, s) \subseteq old \cup {wa.bak.i}
            /\ (Did("stat") /\ wa.pc = "done" /\ old = 0..(BackupProbeLimit - 1)) =>
                /\ wa.err = "backup: too many existing backups"
                /\ fs = fs0

\* the second of two calls wrote <name>.bak.1 next to the first call's <name>.bak
C5_Witness ==
    /\ calls = 2
    /\ wa.pc = "done"
    /\ wa.err = "nil"
    /\ wa.bak = BakName(ApplyPath, ".bak", 1)
    /\ fs0[BakName(ApplyPath, ".bak", 0)].content \in ApplyContents
    /\ fs[wa.bak].content \in ApplyData

-----------------------------------------------------------------------------
(* Claims about Run *)

Range(q) == {q[j] : j \in 1..Len(q)}

\* C7 (as claimed): a run without any error exits 0 when no file's diff
\* reported a meaningful change, and 1 when some file's did.
C7_ExitCodeFollowsDiff ==
    (run.pc = "exit" /\ ~hist.failed) =>
        /\ hist.differed = {} => run.code = 0
        /\ hist.differed # {} => run.code = 1

\* C8: Run exits 2 exactly when something failed (the command line, the
\* discovery, reading or classifying a file, WriteAtomic), also when files
\* were changed.
C8_ExitTwoIffError ==
    run.pc = "exit" =>
        /\ run.code \in {0, 1, 2}
        /\ run.code = 2 <=> hist.failed

\* one file committed, another one failed: exit code 2
C8_Witness ==
    /\ run.pc = "exit"
    /\ run.code = 2
    /\ hist.committed # {}
    /\ \E j \in 1..Len(stderr) : stderr[j].kind = "warn"

\* C9: the paths are processed in ascending order of their bytes, each once,
\* whatever happened to the earlier ones; WriteAtomic works on the path
\* being processed; a run that reaches its end has processed them all.
C9_EachPathOnceInOrder ==
    run.pc \in {"loop", "apply", "exit"} =>
        /\ Range(run.paths) = Range(hist.discovered)
        /\ \A j, k \in 1..Len(run.paths) : j < k => LexLess(run.paths[j], run.paths[k])
        /\ Len(hist.processed) <= Len(run.paths)
        /\ hist.processed = SubSeq(run.paths, 1, Len(hist.processed))
        /\ run.pc = "loop" => Len(hist.processed) = run.i - 1
        /\ run.pc = "apply" =>
            /\ Len(hist.processed) = run.i
            /\ wa.path = run.paths[run.i]
        /\ run.pc = "exit" => hist.processed = run.paths

\* the first path could not be read or was binary, the second was committed
C9_Witness ==
    /\ run.pc = "exit"
    /\ Len(run.paths) = 2
    /\ \E j \in 1..Len(stderr) : stderr[j] = Warn("warn", run.paths[1])
    /\ run.paths[2] \in hist.committed

\* C10: with --dry-run left at its default or set, Run leaves the file
\* system as it found it and never enters WriteAtomic.
C10_DryRunWritesNothing ==
    (run.pc # "off" /\ hist.dryArg \in {"unset", "true"}) =>
        /\ fs = hist.fsInit
        /\ wa = WaIdle

\* default mode, --backup given, a change previewed: exit code 1
C10_Witness ==
    /\ run.pc = "exit"
    /\ hist.dryArg = "unset"
    /\ run.cfg.Backup
    /\ run.code = 1
    /\ Len(stdout) > 0
    /\ stdout[1].preview # <<>>

-----------------------------------------------------------------------------
(* Claims about Discover *)

\* the entry that path p names is a regular file
NamesRegularFile(p) ==
    LET n == Lstat(fs, unit.env, p)
    IN  n # NoName /\ IsRegular(fs[n].mode)

\* C11: whatever the root and the selector, the paths Discover returns are
\* absolute, each names a regular file of the tree, and they are in strictly
\* ascending order of their bytes, so none occurs twice.
C11_DiscoverSortedUniqueRegular ==
    unit.fn = "Discover" =>
        LET ps == unit.ret.paths
        IN  /\ \A j \in 1..Len(ps) : IsAbs(ps[j]) /\ NamesRegularFile(ps[j])
            /\ \A j, k \in 1..Len(ps) : j < k => LexLess(ps[j], ps[k])

\* Files, Glob and Ext all select a.t, the map yields its keys in descending
\* order, and a.t is returned with other paths
C11_Witness ==
    /\ unit.fn = "Discover"
    /\ unit.sel.Files = <<<<97, Dot, 116>>>> /\ unit.sel.Glob = <<Star, Dot, 116>> /\ unit.sel.Ext = <<116>>
    /\ unit.sel.Exclude = <<>>
    /\ unit.env.order = "desc"
    /\ Len(unit.ret.paths) >= 2
    /\ <<Slash, 114, Slash, 97, Dot, 116>> \in Range(unit.ret.paths)

\* C12: no path that Discover returns is a symbolic link or a directory,
\* and no link or directory of the tree is among the paths, whether Files
\* names it, Glob matches it or it carries the extension.
C12_NoLinkNoDirectory ==
    unit.fn = "Discover" =>
        /\ \A j \in 1..Len(unit.ret.paths) :
             LET n == Lstat(fs, unit.env, unit.ret.paths[j])
             IN  n # NoName => "symlink" \notin fs[n].mode /\ ~IsDir(fs[n].mode)
        /\ \A q \in Entries(fs) :
             ("symlink" \in fs[FileName(q)].mode \/ IsDir(fs[FileName(q)].mode))
                => q \notin Range(unit.ret.paths)

\* the tree holds the link l.t and the directory d.t; Files names both, and
\* Glob matches both
C12_Witness ==
    /\ unit.fn = "Discover"
    /\ Exists(fs, FileName(<<Slash, 114, Slash, 108, Dot, 116>>))
    /\ "symlink" \in fs[FileName(<<Slash, 114, Slash, 108, Dot, 116>>)].mode
    /\ IsDir(fs[FileName(<<Slash, 114, Slash, 100, Dot, 116>>)].mode)
    /\ unit.sel.Files = <<<<108, Dot, 116>>, <<100, Dot, 116>>>>
    /\ unit.sel.Glob = <<Star, Dot, 116>>
    /\ unit.ret.paths = <<<<Slash, 114, Slash, 97, Dot, 116>>>>

\* the extension e in its other spellings: in lower case, in upper case,
\* and each of them behind a dot
ExtVariants(e) ==
    LET cs == {e, ToLower(e), ToUpper(e)}
    IN  cs \cup {<<Dot>> \o c : c \in cs}

\* the call returns what it would return with v for Ext
SameWithExt(v) ==
    LET other == Discover(fs, unit.env, unit.root, [unit.sel EXCEPT !.Ext = v])
    IN  /\ other.paths = unit.ret.paths
        /\ other.nil = unit.ret.nil
        /\ other.err = unit.ret.err

\* the regular files directly in the root whose whole name is the dot and e,
\* in any case
HiddenNamed(e) ==
    {p \in Entries(fs) :
        /\ IsRegular(fs[FileName(p)].mode)
        /\ Dir(p) = Cwd
        /\ ToLower(Base(p)) = <<Dot>> \o ToLower(e)}

NothingSelected(sel) ==
    /\ sel.Glob = <<>>
    /\ sel.Ext \in {<<>>, <<Dot>>}
    /\ sel.Files = <<>>

\* the call returned an error and a nil list
FailedFast == unit.ret.err /\ unit.ret.nil

\* the call looked up no file, expanded no pattern and walked no directory
NothingVisited ==
    \A j \in 1..Len(unit.ret.ops) : unit.ret.ops[j] \notin {"lstat", "glob", "walk"}

\* the root is relative and the working directory cannot be determined
RootUnresolved == ~IsAbs(unit.root) /\ ~unit.env.getwd

\* C14 (as claimed): Discover returns an error and a nil list, having
\* visited nothing, when Glob, the normalized Ext and Files are all empty,
\* and under no other condition.
C14_FailFastOnlyOnEmptySelector ==
    unit.fn = "Discover" =>
        /\ NothingSelected(unit.sel) => (FailedFast /\ NothingVisited)
        /\ FailedFast => NothingSelected(unit.sel)

\* C14 (amended): Discover returns an error and a nil list, having visited
\* nothing, when Glob, the normalized Ext and Files are all empty, and
\* also when the root is relative and the working directory cannot be
\* determined; under no other condition.
C14_FailFast ==
    unit.fn = "Discover" =>
        /\ (NothingSelected(unit.sel) \/ RootUnresolved) =>
             (FailedFast /\ NothingVisited /\ unit.ret.paths = <<>>)
        /\ FailedFast => (NothingSelected(unit.sel) \/ RootUnresolved)

\* Ext is a lone dot and only Exclude is set besides: the call fails on the
\* selector, the root being resolved
C14_Witness ==
    /\ unit.fn = "Discover"
    /\ unit.sel.Ext = <<Dot>> /\ unit.sel.Exclude # <<>>
    /\ unit.sel.Glob = <<>> /\ unit.sel.Files = <<>>
    /\ FailedFast
    /\ unit.ret.errs = {[kind |-> "selector", path |-> <<>>]}

\* the call as it would be without Exclude
Unfiltered == Discover(fs, unit.env, unit.root, [unit.sel EXCEPT !.Exclude = <<>>])

\* pattern ex matches path p by its form relative to the root, by its base
\* name or, the pattern being absolute, by its absolute form
Matches(ex, p) ==
    \/ match(ex, Rel(Cwd, p))
    \/ match(ex, Base(p))
    \/ IsAbs(ex) /\ match(ex, p)

\* C16: with Exclude set, Discover returns exactly the paths it returns
\* without Exclude that no exclude pattern matches, by their relative
\* form, their base name or, for an absolute pattern, their absolute form;
\* the errors are those of the call without Exclude, and malformed exclude
\* patterns remove nothing.
C16_ExcludeFilters ==
    (unit.fn = "Discover" /\ unit.sel.Exclude # <<>> /\ ~unit.ret.nil) =>
        LET all == Unfiltered
            ex  == unit.sel.Exclude
        IN  /\ Range(unit.ret.paths) =
                 {p \in Range(all.paths) : \A i \in DOMAIN ex : ~Matches(ex[i], p)}
            /\ unit.ret.errs = all.errs
            /\ (\A i \in DOMAIN ex : Match(ex[i], <<>>).err) => unit.ret.paths = all.paths

\* Files, Glob and Ext all select a.t and Exclude is its absolute path: other
\* files are returned, a.t is not
C16_Witness ==
    /\ unit.fn = "Discover"
    /\ unit.sel.Exclude = << <<Slash, 114, Slash, 97, Dot, 116>> >>
    /\ unit.sel.Files # <<>> /\ unit.sel.Glob # <<>> /\ unit.sel.Ext # <<>>
    /\ <<Slash, 114, Slash, 97, Dot, 116>> \in Range(Unfiltered.paths)
    /\ unit.ret.paths # <<>>
    /\ <<Slash, 114, Slash, 97, Dot, 116>> \notin Range(unit.ret.paths)

\* the absolute path of an entry of Files
EntryPath(e) == IF IsAbs(e) THEN Clean(e) ELSE Join(Cwd, e)

\* the entries of Files that name a regular file
ValidEntries == {EntryPath(unit.sel.Files[i]) : i \in
                    {j \in DOMAIN unit.sel.Files : NamesRegularFile(EntryPath(unit.sel.Files[j]))}}

\* C17: an entry of Files that does not exist or is not a regular file adds
\* no path and no error: called with Files alone, Discover returns the
\* entries that name a regular file, a list that may be empty, and no
\* error; called with other mechanisms besides, it returns those entries
\* too and no error about Files.
C17_MissingFilesDropped ==
    (unit.fn = "Discover" /\ unit.sel.Files # <<>> /\ ~RootUnresolved) =>
        /\ ~unit.ret.nil
        /\ \A e \in unit.ret.errs : e.kind # "files"
        /\ unit.sel.Exclude = <<>> => ValidEntries \subseteq Range(unit.ret.paths)
        /\ (unit.sel.Glob = <<>> /\ unit.sel.Ext \in {<<>>, <<Dot>>}) =>
            /\ ~unit.ret.err
            /\ Range(unit.ret.paths) \subseteq ValidEntries

\* Files names a link and a directory of the tree and nothing else is set:
\* an empty list and no error
C17_Witness ==
    /\ unit.fn = "Discover"
    /\ unit.sel = [EmptySelector EXCEPT !.Files = <<<<108, Dot, 116>>, <<100, Dot, 116>>>>]
    /\ Exists(fs, FileName(<<Slash, 114, Slash, 108, Dot, 116>>))
    /\ Cwd \notin unit.env.denied
    /\ unit.ret.paths = <<>>
    /\ ~unit.ret.err
    /\ ~unit.ret.nil

-----------------------------------------------------------------------------
(* Claims about Diff and SubstituteLiteralFile *)

\* Diff was called on a text and the same text with a newline added
NewlineAdded == unit.fn = "Diff" /\ unit.after = unit.before \o <<NL>>

Occurrences(s, pat) == {i \in 1..Len(s) : HasPrefixAt(s, pat, i)}

\* no two of the occurrences in G overlap
Disjoint(G, n) == \A i, j \in G : i < j => i + n <= j

\* the occurrences met from left to right, each start after the end of the
\* one before
Leftmost(s, pat) ==
    CHOOSE G \in SUBSET Occurrences(s, pat) :
        \A i \in Occurrences(s, pat) :
            i \in G <=> ~\E j \in G : j < i /\ i < j + Len(pat)

\* s with the n bytes at every position of G replaced by repl
RECURSIVE Splice(_, _, _, _, _)
Splice(s, G, n, repl, i) ==
    IF i > Len(s) THEN <<>>
    ELSE IF i \in G THEN repl \o Splice(s, G, n, repl, i + n)
    ELSE <<s[i]>> \o Splice(s, G, n, repl, i + 1)

\* C19: on a file without the byte 0x00 that was read, with a non-empty
\* pattern, Matches is the greatest number of occurrences that do not
\* overlap, Replacements equals Matches, After is the content with the
\* occurrences met from left to right replaced, and Changed tells whether
\* After differs from Before; a pattern equal to its replacement that
\* occurs gives Matches > 0 and Changed false; an empty pattern or one that
\* does not occur gives Matches 0 and After equal to Before.
C19_SubstituteCounts ==
    (unit.fn = "SubstituteLiteralFile" /\ unit.readOk
        /\ IndexByte(fs[FileName(unit.path)].content, NUL) < 0) =>
        LET s   == fs[FileName(unit.path)].content
            pat == unit.pattern
            occ == Occurrences(s, pat)
            r   == unit.ret
        IN  /\ r.err = "nil"
            /\ r.Before = s
            /\ r.Replacements = r.Matches
            /\ r.Changed <=> r.After # r.Before
            /\ pat # <<>> =>
                /\ Disjoint(Leftmost(s, pat), Len(pat))
                /\ r.Matches = Cardinality(Leftmost(s, pat))
                /\ \A G \in SUBSET occ : Disjoint(G, Len(pat)) => Cardinality(G) <= r.Matches
                /\ r.After = Splice(s, Leftmost(s, pat), Len(pat), unit.repl, 1)
            /\ (pat # <<>> /\ pat = unit.repl /\ occ # {}) => (r.Matches > 0 /\ ~r.Changed)
            /\ (pat = <<>> \/ occ = {}) => (r.Matches = 0 /\ r.After = r.Before)

\* "aa" replaced by "b" in "aaa": the two occurrences overlap, one is
\* replaced
C19_Witness ==
    /\ unit.fn = "SubstituteLiteralFile"
    /\ fs[FileName(TextPath)].content = <<97, 97, 97>>
    /\ unit.pattern = <<97, 97>> /\ unit.repl = <<98>>
    /\ unit.ret.Matches = 1
    /\ unit.ret.After = <<98, 97>>
    /\ unit.ret.Changed

-----------------------------------------------------------------------------
(* Claims about discovery errors in Run *)

\* what Discover found for the run through one field of the selector alone
FoundBy(field) ==
    LET only == [EmptySelector EXCEPT ![field] = hist.sel[field]]
    IN  IF hist.sel[field] = <<>> THEN {}
        ELSE Range(Discover(hist.fsInit, Env(TRUE, hist.denied, "asc"), <<Dot>>, only).paths)

\* the errors of the discovery are those of a pattern or of the walk
NonFatalOnly ==
    /\ hist.discErrs # {}
    /\ \A e \in hist.discErrs : e.kind \in {"glob", "walk"}

\* C15: when the glob pattern is malformed or the walk meets an error,
\* Discover returns an error and every path that Files, Glob and Ext find
\* each on their own (what it returned does not change during the run, and
\* is compared before the first path is processed); when there is such a
\* path, Run processes every returned path, reports the discovery error
\* last and only then, and exits with code 2.
C15_DiscoveryErrorNotFatal ==
    (run.pc \in {"loop", "apply", "exit"} /\ NonFatalOnly) =>
        /\ hist.processed = <<>> =>
             Range(hist.discovered) = FoundBy("Files") \cup FoundBy("Glob") \cup FoundBy("Ext")
        /\ hist.discovered # <<>> =>
            /\ run.pc # "exit" =>
                 \A j \in 1..Len(stderr) : stderr[j].kind # "discovery"
            /\ run.pc = "exit" =>
                 /\ hist.processed = SortStrings(hist.discovered)
                 /\ Len(stderr) > 0
                 /\ stderr[Len(stderr)] = Warn("discovery", <<>>)
                 /\ \A j \in 1..(Len(stderr) - 1) : stderr[j].kind # "discovery"
                 /\ run.code = 2

\* --ext t, the walk failed on the directory s: two files were found, both
\* were processed and one was written, and the run ended with code 2
C15_Witness ==
    /\ run.pc = "exit"
    /\ hist.sel.Ext = <<116>>
    /\ hist.discErrs = {[kind |-> "walk", path |-> RunSubdir]}
    /\ Len(hist.discovered) = 2
    /\ Len(hist.processed) = 2
    /\ hist.committed # {}
    /\ run.code = 2

-----------------------------------------------------------------------------
(* Claims about binary files in Run *)

\* the files that held a byte 0x00 when the run started
BinaryFiles ==
    {p \in RunPaths : /\ Exists(hist.fsInit, FileName(p))
                      /\ IndexByte(hist.fsInit[FileName(p)].content, NUL) >= 0}

\* on every content that holds a byte 0x00, at any place, and for every
\* pattern and replacement, SubstituteLiteralFile returns an error and the
\* zero Result
BinaryRejected ==
    \A c \in {x \in TextContents : IndexByte(x, NUL) >= 0} :
        \A pat \in TextPatterns, repl \in TextPatterns :
            SubstituteLiteralFile([err |-> FALSE, data |-> c], pat, repl)
                = Result("binary", <<>>, <<>>, 0, FALSE)

\* C20: for a content that holds a byte 0x00 anywhere SubstituteLiteralFile
\* returns an error and an empty Result whatever the pattern; throughout a
\* run a file with such a content stays as it was, no backup or temporary
\* file of it appears and WriteAtomic is never called on it; once Run has
\* processed it there is a warning for it on stderr, and the run ends with
\* exit code 2.
C20_BinaryNeverTransformed ==
    run.pc \in {"loop", "apply", "exit"} =>
        /\ BinaryRejected
        /\ \A p \in BinaryFiles :
            /\ SubstituteLiteralFile(ReadFile(fs, p, TRUE), run.cfg.Pattern, run.cfg.Replace)
                    = Result("binary", <<>>, <<>>, 0, FALSE)
            /\ fs[FileName(p)] = hist.fsInit[FileName(p)]
            /\ \A n \in DOMAIN fs : n.p = p => n = FileName(p)
            /\ wa.pc # "idle" => wa.path # p
            /\ p \notin hist.committed \cup hist.differed
            /\ \A j \in 1..Len(stdout) : stdout[j].path # p
            /\ p \in Range(hist.processed) =>
                /\ \E j \in 1..Len(stderr) : stderr[j] = Warn("warn", p)
                /\ run.pc = "exit" => run.code = 2

\* a run that writes, with --backup, whose pattern occurs in a file that
\* holds a 0x00 and in another file: the other one was written, and the run
\* ended with code 2
C20_Witness ==
    /\ run.pc = "exit"
    /\ run.code = 2
    /\ ~run.cfg.DryRun /\ run.cfg.Backup
    /\ run.cfg.Pattern = <<97>> /\ run.cfg.Replace = <<98>>
    /\ hist.committed # {}
    /\ \E p \in BinaryFiles :
        /\ hist.fsInit[FileName(p)].content = <<97, NUL>>
        /\ p \in Range(hist.processed)
        /\ fs[FileName(p)].content = <<97, NUL>>

-----------------------------------------------------------------------------
(* Claims about configuration errors in Run *)

\* the conditions parseArgs rejects, stated on the command line
MissingPatternOrReplace(a) == a.Pattern = <<>> \/ a.Replace = <<>>
RegexRequested(a) == a.Regex
YesAndInteractive(a) == a.Yes /\ a.Interactive
NoSelection(a) == a.Glob = <<>> /\ a.Ext = <<>> /\ a.Files = <<>>

ConfigError(a) ==
    \/ MissingPatternOrReplace(a)
    \/ RegexRequested(a)
    \/ YesAndInteractive(a)
    \/ NoSelection(a)

\* C21: once Run has started on a command line with a missing pattern or
\* replacement, with --regex, with both --yes and --interactive, or without
\* --glob, --ext and --files, it has returned 2: Discover was not called, no
\* path was processed, WriteAtomic was not called, nothing was printed on
\* stdout, stderr holds the one line of the configuration error, and the
\* tree is the one the run started on.
C21_ConfigErrorBeforeIO ==
    (run.pc # "start" /\ ConfigError(hist.args)) =>
        /\ run.pc = "exit"
        /\ run.code = 2
        /\ ~hist.discoverCalled
        /\ hist.processed = <<>>
        /\ wa = WaIdle
        /\ stdout = <<>>
        /\ stderr = <<Warn("config", <<>>)>>
        /\ fs = hist.fsInit

\* a command line that asks to write but selects no file, run where a file
\* holds the pattern
C21_Witness ==
    /\ run.pc = "exit"
    /\ NoSelection(hist.args)
    /\ ~MissingPatternOrReplace(hist.args)
    /\ hist.args.DryRun = "false"
    /\ \E p \in RunPaths :
        /\ Exists(fs, FileName(p))
        /\ Count(fs[FileName(p)].content, hist.args.Pattern) > 0

-----------------------------------------------------------------------------
(* Claims about an exact path as Glob *)

\* every directory on the way to p can be searched and read
Reachable(p) ==
    \A d \in unit.env.denied : ~HasPrefixAt(p, d \o <<Slash>>, 1)

\* Glob is the absolute path of a regular file of the tree, in a call that
\* can resolve its root and reach the file
GlobIsRegularFile ==
    /\ unit.fn = "Discover"
    /\ IsAbs(unit.sel.Glob)
    /\ unit.sel.Glob \in RegularFiles(fs)
    /\ Reachable(unit.sel.Glob)
    /\ ~RootUnresolved

\* the path holds a character that opens a class or escapes the next one
HasClassOrEscape(p) == \E i \in 1..Len(p) : p[i] \in {LBracket, Backslash}

\* C22 (as claimed): when Glob is the absolute path of a regular file of the
\* tree, in a call that resolves its root and can reach the file, the list
\* Discover returns contains that path, whatever characters the path holds.
C22_ExactPathMatchesItself_Any ==
    GlobIsRegularFile => unit.sel.Glob \in Range(unit.ret.paths)

\* C22 (amended): when Glob is the absolute path of a regular file of the
\* tree that holds neither "[" nor "\", in a call that resolves its root and
\* can reach the file, the list Discover returns contains that path; a call
\* that cannot resolve its root returns no path at all.
C22_ExactPathMatchesItself ==
    /\ (GlobIsRegularFile /\ ~HasClassOrEscape(unit.sel.Glob))
            => unit.sel.Glob \in Range(unit.ret.paths)
    /\ (unit.fn = "Discover" /\ RootUnresolved) => unit.ret.paths = <<>>

\* Glob is the path of the file named "?", next to the file a: both are
\* returned
C22_Witness ==
    /\ GlobIsRegularFile
    /\ unit.sel.Glob = Join(Cwd, <<Question>>)
    /\ unit.sel.Ext = <<>>
    /\ unit.ret.paths = <<Join(Cwd, <<Question>>), Join(Cwd, <<97>>)>>

-----------------------------------------------------------------------------
(* Claims about the order of WriteAtomic's steps *)

\* the system calls of a WriteAtomic call, in the order of the source
StepOrder(backup) ==
    <<"stat">>
    \o (IF backup THEN <<"backup.path", "backup.open", "backup.copy", "backup.sync">>
                   ELSE <<>>)
    \o <<"temp.create", "temp.write", "temp.chmod", "temp.sync", "temp.close",
          "rename", "dir.sync">>

\* C23: the system calls a WriteAtomic call has made so far are the first
\* ones of the fixed order (stat; the backup's name, creation, copy and
\* flush if a backup is requested, none of them otherwise; creation of the
\* temporary file, write, chmod, flush, close; rename; flush of the
\* directory), each made only after all the earlier ones succeeded, followed
\* at most by the removal of the temporary file.  When the temporary file is
\* created a requested backup exists, with the original content, flushed.
\* The temporary file is an entry of the target's directory, named after
\* the target; when the rename is due it holds exactly data, has the
\* original's permission bits and is flushed.  A call that got to flushing
\* the directory returns nil whether or not the flush succeeded.
C23_StepsInOrder ==
    wa.pc # "idle" =>
        /\ \A j \in 1..Len(trace) :
              IF trace[j].op = "remove"
              THEN j = Len(trace) /\ j > 1 /\ Tried("temp.create")
              ELSE /\ j <= Len(StepOrder(wa.backup))
                   /\ trace[j].op = StepOrder(wa.backup)[j]
                   /\ \A i \in 1..(j - 1) : trace[i].ok
        /\ (Tried("temp.create") /\ wa.backup) =>
              /\ Did("backup.sync")
              /\ Exists(fs, wa.bak)
              /\ fs[wa.bak].content = fs0[Target].content
              /\ fs[wa.bak].synced
        /\ wa.tmp # NoName => wa.tmp = TmpName(wa.path)
        /\ wa.pc = "rename" =>
              /\ Exists(fs, wa.tmp)
              /\ fs[wa.tmp].content = wa.data
              /\ Perm(fs[wa.tmp].mode) = Perm(fs0[Target].mode)
              /\ fs[wa.tmp].synced
        /\ Tried("dir.sync") => Did("rename")
        /\ (wa.pc = "done" /\ Tried("dir.sync")) => wa.err = "nil"

\* a call with a backup that made every step, the last of which failed: it
\* returned nil
C23_Witness ==
    /\ wa.pc = "done"
    /\ wa.backup
    /\ Len(trace) = Len(StepOrder(TRUE))
    /\ trace[Len(trace)] = [op |-> "dir.sync", ok |-> FALSE]
    /\ wa.err = "nil"
    /\ wa.data # fs0[Target].content

-----------------------------------------------------------------------------
(* Claims about Diff's preview *)

\* the preview begins with "--- before" and "+++ after"
HasHeaders(preview) ==
    /\ Len(preview) >= 2
    /\ preview[1] = Line(HeaderBefore, "none")
    /\ preview[2] = Line(HeaderAfter, "none")

\* C24: Diff returns no error; its preview is non-empty exactly when it
\* reports a change, and then the first two lines are "--- before" and
\* "+++ after"; for equal texts the preview is empty and changed is false;
\* and the same call with any other Context returns the same result.
C24_PreviewIffChanged ==
    unit.fn = "Diff" =>
        /\ unit.ret.err = "nil"
        /\ (unit.ret.preview # <<>>) <=> unit.ret.changed
        /\ unit.ret.changed => HasHeaders(unit.ret.preview)
        /\ unit.before = unit.after => (unit.ret.preview = <<>> /\ ~unit.ret.changed)
        /\ \A c \in Contexts :
              Diff(unit.before, unit.after, [unit.opts EXCEPT !.Context = c]) = unit.ret

\* Diff("a", "a\n") with Context 5 and StrictEOL false: the texts differ,
\* no change is reported and the preview is empty
C24_Witness ==
    /\ unit.fn = "Diff"
    /\ unit.before = <<97>> /\ unit.after = <<97, NL>>
    /\ unit.opts.Context = 5 /\ ~unit.opts.StrictEOL
    /\ unit.ret.preview = <<>> /\ ~unit.ret.changed

\* the lines of the preview after the two header lines that begin with "-"
\* or "+"
MarkerLines(preview) ==
    {j \in 3..Len(preview) : preview[j].text # <<>> /\ preview[j].text[1] \in {45, 43}}

\* s without the newlines at its end
RECURSIVE TrimNewlines(_)
TrimNewlines(s) ==
    IF HasSuffix(s, <<NL>>) THEN TrimNewlines(SubSeq(s, 1, Len(s) - 1)) ELSE s

\* C26 (as claimed): whenever Diff reports a change, the preview holds a
\* line that begins with "-" or "+" after the two header lines.
C26_ChangedHasMarker_Any ==
    (unit.fn = "Diff" /\ unit.ret.changed) => MarkerLines(unit.ret.preview) # {}

\* C26 (amended): whenever Diff reports a change, the preview begins with
\* the two header lines, and it holds a line that begins with "-" or "+"
\* after them unless the texts differ only in the number of newlines at
\* their end; then the preview is the two header lines alone.
C26_ChangedHasMarker ==
    (unit.fn = "Diff" /\ unit.ret.changed) =>
        /\ HasHeaders(unit.ret.preview)
        /\ TrimNewlines(unit.before) # TrimNewlines(unit.after)
                => MarkerLines(unit.ret.preview) # {}
        /\ TrimNewlines(unit.before) = TrimNewlines(unit.after)
                => Len(unit.ret.preview) = 2

\* Diff("a", "") reports a change: the preview's third line is "-a"
C26_Witness ==
    /\ unit.fn = "Diff"
    /\ unit.before = <<97>> /\ unit.after = <<>>
    /\ unit.ret.changed
    /\ Len(unit.ret.preview) = 3
    /\ unit.ret.preview[3].text = <<45, 97>>

-----------------------------------------------------------------------------
(* Claims about Changed *)

\* C27: whatever the content, the pattern and the replacement,
\* SubstituteLiteralFile reports Changed exactly when Matches > 0 and the
\* pattern differs from the replacement; a success with Matches = 0 has
\* Changed false and After equal to Before.
C27_ChangedIffMatchedAndDiffers ==
    unit.fn = "SubstituteLiteralFile" =>
        /\ unit.ret.Changed <=> (unit.ret.Matches > 0 /\ unit.pattern # unit.repl)
        /\ (unit.ret.err = "nil" /\ unit.ret.Matches = 0) =>
              (~unit.ret.Changed /\ unit.ret.After = unit.ret.Before)

\* "ab" holds the pattern "a", which is also the replacement: one match,
\* nothing changed
C27_Witness ==
    /\ unit.fn = "SubstituteLiteralFile"
    /\ fs[FileName(TextPath)].content = <<97, 98>>
    /\ unit.pattern = <<97>> /\ unit.repl = <<97>>
    /\ unit.ret.err = "nil"
    /\ unit.ret.Matches = 1
    /\ ~unit.ret.Changed

-----------------------------------------------------------------------------
(* Claims about what Run writes *)

\* what SubstituteLiteralFile returns for the content that q had when the
\* run started, if it can be read
Substituted(q) ==
    SubstituteLiteralFile([err |-> FALSE, data |-> hist.fsInit[FileName(q)].content],
                          run.cfg.Pattern, run.cfg.Replace)

\* the substitution res changes the content, and Diff finds the change
\* meaningful under the options of the run
Meaningful(res) ==
    /\ res.Changed
    /\ Diff(res.Before, res.After,
            DiffOptions(~run.cfg.NoColor, run.cfg.Context, run.cfg.StrictEOL)).changed

\* a warning about q is on stderr: it could not be read, or it is binary
Warned(q) == \E j \in 1..Len(stderr) : stderr[j] = Warn("warn", q)

\* q is as it was when the run started, and no backup or temporary file of
\* it exists
Kept(q) ==
    /\ Exists(fs, FileName(q))
    /\ fs[FileName(q)] = hist.fsInit[FileName(q)]
    /\ \A n \in DOMAIN fs : n.p = q => n = FileName(q)

\* C25: Run calls WriteAtomic only when --dry-run is off, for the path it
\* is processing, which Discover returned, whose substitution reports Changed
\* and whose Diff reports a meaningful change, and with the substituted
\* content as data.  In such a run every file of the tree that Discover did
\* not return, whose substitution changes nothing (no match, binary file),
\* whose change Diff does not find meaningful (a lone final newline without
\* --strict-eol) or that was reported unreadable is as it was at the start,
\* without any backup or temporary file.
C25_WriteOnlyWhenChanged ==
    run.pc \in {"loop", "apply", "exit"} =>
        /\ wa.pc # "idle" =>
              /\ ~run.cfg.DryRun
              /\ run.i \in 1..Len(run.paths) /\ wa.path = run.paths[run.i]
              /\ wa.path \in Range(hist.discovered)
              /\ Meaningful(Substituted(wa.path))
              /\ wa.data = Substituted(wa.path).After
              /\ wa.backup = run.cfg.Backup
        /\ ~run.cfg.DryRun =>
              \A q \in RunPaths :
                  (/\ Exists(hist.fsInit, FileName(q))
                   /\ \/ q \notin Range(hist.discovered)
                      \/ ~Meaningful(Substituted(q))
                      \/ Warned(q))
                    => Kept(q)

\* a run with --dry-run=false and --backup has ended: one file was written
\* and has a backup, another one that Discover returned holds no match and
\* is as it was
C25_Witness ==
    /\ run.pc = "exit"
    /\ ~run.cfg.DryRun /\ run.cfg.Backup
    /\ \E p, q \in Range(hist.discovered) :
        /\ p # q
        /\ p \in hist.committed
        /\ fs[FileName(p)].content # hist.fsInit[FileName(p)].content
        /\ \E n \in DOMAIN fs : n.p = p /\ n.k = "bak"
        /\ Substituted(q).err = "nil" /\ Substituted(q).Matches = 0
        /\ Kept(q)

====
